---- MODULE Spec2Model ----
(***************************************************************************)
(* Model of CallbackHandler (mcp-status-callback): the listener            *)
(* bootstrapper (start / stop / getPublicUrl) of                           *)
(*   - src/src/CallbackHandler.ts, lines 1-245: the variant built on the   *)
(*     community "ngrok" package (variant "community"), and                *)
(*   - src/unnamed/part_001, lines 24-282: the variant built on the        *)
(*     official "@ngrok/ngrok" SDK (variant "sdk").                        *)
(* Node's event loop is modelled by one action per callback / await        *)
(* continuation; everything between two suspension points is one step.     *)
(* Spec is the lifecycle (start, stop and the events they wait for);       *)
(* CallbackSpec is the callback endpoint (POST /callback and the listeners *)
(* registered for its event) on a server the lifecycle has brought up.     *)
(***************************************************************************)
EXTENDS Integers, Sequences, FiniteSets, TLC

\* ---------------------------------------------------------------- bounds
MaxStarts == 1
MaxStops == 2
MaxCalls == 2
MaxOccupied == 2
MaxListeners == 1
MaxRequests == 1
MaxRestarts == 2
MaxRestartCalls == 3
MaxSubscribers == 2
MaxSingletonStarts == 2
MaxSingletonCalls == 2

\* ------------------------------------------------------------- constants
DefaultPort == 4000
CallbackPath == "/callback"
Null == "null"
TokenError == "Ngrok auth token not provided"
EADDRINUSE == "EADDRINUSE"
EACCES == "EACCES"
ProviderError == "ERR_NGROK"
BadPortError == "ERR_SOCKET_BAD_PORT"
\* the highest port number (65535 in Node), scaled so that the retry loop
\* reaches it: it lies above every port another process holds in Init
MaxPort == DefaultPort + MaxOccupied + 1

Variants == {"community", "sdk"}
Tokens == {"", "tok"}
Domains == {Null, "cb.example.dev"}
\* the base URL the provider answers with for its n-th tunnel: the reserved
\* hostname when one was passed, a fresh name of its own otherwise
ProviderUrl(hostname, n) ==
    IF hostname # Null THEN "https://" \o hostname
    ELSE IF n % 2 = 1 THEN "https://abc123.example.dev" ELSE "https://xyz789.example.dev"

Urls == { ProviderUrl(h, n) : h \in Domains, n \in 1 .. 2 }

VARIABLES
    variant,        \* which source variant of the class runs
    ngrokAuthToken, \* this.ngrokAuthToken
    customDomain,   \* this.customDomain (Null when absent)
    occupied,       \* ports held by other processes
    attempts,       \* the http servers created by app.listen, in order
    server,         \* this.server: index into attempts, 0 when unset
    ngrokUrl,       \* this.ngrokUrl (Null when unset)
    ngrokListener,  \* this.ngrokListener: index into tunnels, 0 when unset
    tunnels,        \* the tunnels the provider has opened for this process
    starts,         \* the start() invocations and their promises
    stops,          \* the stop() invocations and their promises
    listeners,      \* the listeners registered for 'callback', in registration order
    exchange,       \* the latest POST /callback request, with everything it produced
    trace           \* everything observable, in order of occurrence

vars == << variant, ngrokAuthToken, customDomain, occupied, attempts, server,
           ngrokUrl, ngrokListener, tunnels, starts, stops, listeners, exchange, trace >>

\* ------------------------------------------------------------- helpers
Ev(kind, op, id, port, level, msg) ==
    [kind |-> kind, op |-> op, id |-> id, port |-> port, level |-> level, msg |-> msg]


\* this.emit('log', { level, message })
EmitLog(op, id, port, level, msg) == Ev("log", op, id, port, level, msg)

\* this.emit('tunnelStatus', { level, message })
EmitTunnelStatus(op, id, port, level, msg) == Ev("tunnelStatus", op, id, port, level, msg)

\* a call into, and the answer of, the tunnel provider
ProviderCall(op, id, port, fn, arg) == Ev("providerCall", op, id, port, fn, arg)
ProviderReturn(op, id, port, fn, value) == Ev("providerReturn", op, id, port, fn, value)
ProviderThrow(op, id, port, fn, err) == Ev("providerThrow", op, id, port, fn, err)

\* options that always name the default port
TunnelOptionsDefaultPort(port) ==
    [addr |-> DefaultPort, authtoken |-> ngrokAuthToken, hostname |-> customDomain]

\* the options object of ngrok.connect / ngrok.forward: the local port, the
\* token, and the reserved hostname (Null when none is configured)
TunnelOptions(port) ==
    [addr |-> port, authtoken |-> ngrokAuthToken, hostname |-> customDomain]

\* what start() passes to the provider function fn: the token to
\* ngrok.authtoken, the options object to ngrok.connect / ngrok.forward
TunnelArg(fn, port) == IF fn = "authtoken" THEN ngrokAuthToken ELSE TunnelOptions(port)

\* a composition that forgets the path
CallbackUrlBare(url) == url

\* `${this.ngrokUrl}/callback`
CallbackUrl(url) == url \o CallbackPath

\* resolve(value) / reject(error) of a promise: only the first call settles it
Settle(p, state, value) ==
    IF p.state = "pending"
    THEN [p EXCEPT !.state = state, !.value = value, !.calls = @ + 1]
    ELSE [p EXCEPT !.calls = @ + 1]

\* ports on which a server of this process is listening
OwnPorts == { attempts[i].port : i \in { j \in DOMAIN attempts : attempts[j].status = "listening" } }

PortInUse(p) == p \in occupied \cup OwnPorts

\* a retry loop that binds the next port too, without waiting for this one
startServerAhead(att, s, portToTry) ==
    att \o << [port |-> portToTry, status |-> "pending", start |-> s],
              [port |-> portToTry + 1, status |-> "pending", start |-> s] >>

\* app.listen(portToTry): a new server whose 'error' or 'listening' event is still to come
startServer(att, s, portToTry) ==
    Append(att, [port |-> portToTry, status |-> "pending", start |-> s])

\* JavaScript values: undefined, strings, numbers, arrays, and objects as the
\* sequence of their own properties in insertion order
Undefined == [t |-> "undefined", s |-> "", kv |-> << >>]
Str(s) == [t |-> "string", s |-> s, kv |-> << >>]
Num(s) == [t |-> "number", s |-> s, kv |-> << >>]
Obj(kv) == [t |-> "object", s |-> "", kv |-> kv]
Arr(items) == [t |-> "array", s |-> "", kv |-> [i \in DOMAIN items |-> [k |-> ToString(i - 1), v |-> items[i]]]]
Prop(k, v) == [k |-> k, v |-> v]

\* no request has been received yet (root: the GET / requests answered
\* so far, and the latest answer)
NoExchange ==
    [root |-> [n |-> 0, status |-> 0, text |-> ""], n |-> 0, header |-> << >>, query |-> << >>, raw |-> << >>, express |-> 0, port |-> 0,
     registered |-> << >>, routed |-> FALSE, queryParameters |-> Undefined,
     body |-> Undefined, status |-> 0, text |-> "", events |-> << >>]

\* ----------------------------------------------------------------- Init
Init ==
    /\ variant \in Variants
    /\ ngrokAuthToken \in Tokens
    /\ customDomain \in Domains
    /\ occupied \in SUBSET (DefaultPort .. (DefaultPort + MaxOccupied - 1))
    /\ attempts = << >>
    /\ server = 0
    /\ ngrokUrl = Null
    /\ ngrokListener = 0
    /\ tunnels = << >>
    /\ starts = << >>
    /\ stops = << >>
    /\ listeners = << >>
    /\ exchange = NoExchange
    /\ trace = << >>

\* ---------------------------------------------------------------- start
\* a start() that sets the tunnel up without waiting for 'listening'
startEager ==
    /\ Len(starts) < MaxStarts
    /\ Len(starts) + Len(stops) < MaxCalls
    /\ \A s \in DOMAIN starts : starts[s].state # "pending"
    /\ LET s == Len(starts) + 1
           pc == IF variant = "community" THEN "authtoken" ELSE "forward" IN
        /\ starts' = Append(starts, [pc |-> pc, state |-> "pending", value |-> Null,
                                     calls |-> 0, port |-> DefaultPort])
        /\ attempts' = startServer(attempts, s, DefaultPort)
        /\ trace' = trace \o << Ev("start", "start", s, 0, "", ""),
                                Ev("bind", "start", s, DefaultPort, "", ""),
                                ProviderCall("start", s, DefaultPort, pc, TunnelArg(pc, DefaultPort)) >>
    /\ UNCHANGED << variant, ngrokAuthToken, customDomain, occupied, server,
                    ngrokUrl, ngrokListener, tunnels, stops, listeners, exchange >>

\* start(): new Promise(...) and the first startServer() with the default port.
\* The caller awaits one start() before it calls the next (single-caller usage),
\* and makes at most maxStarts calls of start() among at most maxCalls calls.
StartCall(maxStarts, maxCalls) ==
    /\ Len(starts) < maxStarts
    /\ Len(starts) + Len(stops) < maxCalls
    /\ \A s \in DOMAIN starts : starts[s].state # "pending"
    /\ LET s == Len(starts) + 1 IN
        /\ starts' = Append(starts, [pc |-> "binding", state |-> "pending", value |-> Null,
                                     calls |-> 0, port |-> DefaultPort])
        /\ attempts' = startServer(attempts, s, DefaultPort)
        /\ trace' = trace \o << Ev("start", "start", s, 0, "", ""),
                                Ev("bind", "start", s, DefaultPort, "", "") >>
    /\ UNCHANGED << variant, ngrokAuthToken, customDomain, occupied, server,
                    ngrokUrl, ngrokListener, tunnels, stops, listeners, exchange >>

start == StartCall(MaxStarts, MaxCalls)

\* an error handler that retries whatever the error is
IsAddrInUseAlways(code) == TRUE

\* an error handler that never retries
IsAddrInUseNever(code) == FALSE

\* error.code === 'EADDRINUSE'
IsAddrInUse(code) == code = EADDRINUSE

\* a retry that skips a port
NextPortSkip(portToTry) == portToTry + 2

\* startServer(portToTry + 1)
NextPort(portToTry) == portToTry + 1

\* the error codes the HTTP server library can report for a pending bind; every
\* bind attempt reports exactly one event, 'error' or 'listening'
BindErrors(a) ==
    IF PortInUse(attempts[a].port) THEN {EADDRINUSE} ELSE {EACCES}

\* the port numbers app.listen accepts end at MaxPort; the call with a larger
\* number throws ERR_SOCKET_BAD_PORT instead of returning a server
ValidPort(p) == p <= MaxPort

\* serverAttempt.on('error', ...): on EADDRINUSE the warn log, close() and
\* startServer(portToTry + 1); past the last port that call throws inside the
\* handler, where nothing catches it and nothing settles the promise
OnBindError(a, code) ==
    /\ attempts[a].status = "pending"
    /\ code \in BindErrors(a)
    /\ LET s == attempts[a].start
           p == attempts[a].port IN
        IF IsAddrInUse(code) /\ ValidPort(NextPort(p))
        THEN /\ attempts' = startServer([attempts EXCEPT ![a].status = "closed"], s, NextPort(p))
             /\ starts' = [starts EXCEPT ![s].port = NextPort(p)]
             /\ trace' = trace \o << Ev("bindError", "start", s, p, "", code),
                                     EmitLog("start", s, p, "warn", "Port in use, trying next port"),
                                     Ev("bind", "start", s, NextPort(p), "", "") >>
        ELSE IF IsAddrInUse(code)
        THEN /\ attempts' = [attempts EXCEPT ![a].status = "closed"]
             /\ starts' = [starts EXCEPT ![s].pc = "thrown"]
             /\ trace' = trace \o << Ev("bindError", "start", s, p, "", code),
                                     EmitLog("start", s, p, "warn", "Port in use, trying next port"),
                                     Ev("bind", "start", s, NextPort(p), "", ""),
                                     Ev("throw", "start", s, NextPort(p), "", BadPortError) >>
        ELSE /\ attempts' = [attempts EXCEPT ![a].status = "error"]
             /\ starts' = [starts EXCEPT ![s] = [Settle(@, "rejected", code) EXCEPT !.pc = "done"]]
             /\ trace' = trace \o << Ev("bindError", "start", s, p, "", code),
                                     EmitLog("start", s, p, "error", "Start server Error: " \o code),
                                     Ev("reject", "start", s, p, "", code) >>
    /\ UNCHANGED << variant, ngrokAuthToken, customDomain, occupied, server,
                    ngrokUrl, ngrokListener, tunnels, stops, listeners, exchange >>

\* the first suspension point of tunnel establishment in each variant
TunnelEntry == IF variant = "community" THEN "authtoken" ELSE "forward"

\* a token guard that lets every token through
TokenMissingNever(token) == FALSE

\* !this.ngrokAuthToken
TokenMissing(token) == token = ""

\* a token guard without its `return`
ListeningPcNoReturn(token) == TunnelEntry

\* where the 'listening' handler goes after the token guard (`return` when the token is missing)
ListeningPc(token) == IF TokenMissing(token) THEN "done" ELSE TunnelEntry

\* a 'listening' handler that forgets to keep the server in this.server
OnListeningNoHandle(a) ==
    /\ attempts[a].status = "pending"
    /\ ~PortInUse(attempts[a].port)
    /\ LET s == attempts[a].start
           p == attempts[a].port
           pc == ListeningPc(ngrokAuthToken)
           guarded == IF TokenMissing(ngrokAuthToken) THEN Settle(starts[s], "rejected", TokenError)
                      ELSE starts[s] IN
        /\ attempts' = [attempts EXCEPT ![a].status = "listening"]
        /\ starts' = [starts EXCEPT ![s] = [guarded EXCEPT !.pc = pc]]
        /\ trace' = trace
             \o << Ev("listening", "start", s, p, "", ""),
                   EmitLog("start", s, p, "info", "Callback server listening") >>
             \o (IF TokenMissing(ngrokAuthToken)
                 THEN << EmitLog("start", s, p, "error", TokenError),
                         Ev("reject", "start", s, p, "", TokenError) >>
                 ELSE << >>)
             \o (IF pc = "done" THEN << >> ELSE << ProviderCall("start", s, p, pc, TunnelArg(pc, p)) >>)
    /\ UNCHANGED << variant, ngrokAuthToken, customDomain, occupied, server,
                    ngrokUrl, ngrokListener, tunnels, stops, listeners, exchange >>

\* serverAttempt.on('listening', async () => ...), up to its first await
OnListening(a) ==
    /\ attempts[a].status = "pending"
    /\ ~PortInUse(attempts[a].port)
    /\ LET s == attempts[a].start
           p == attempts[a].port
           pc == ListeningPc(ngrokAuthToken)
           guarded == IF TokenMissing(ngrokAuthToken) THEN Settle(starts[s], "rejected", TokenError)
                      ELSE starts[s] IN
        /\ attempts' = [attempts EXCEPT ![a].status = "listening"]
        /\ server' = a
        /\ starts' = [starts EXCEPT ![s] = [guarded EXCEPT !.pc = pc]]
        /\ trace' = trace
             \o << Ev("listening", "start", s, p, "", ""),
                   EmitLog("start", s, p, "info", "Callback server listening") >>
             \o (IF TokenMissing(ngrokAuthToken)
                 THEN << EmitLog("start", s, p, "error", TokenError),
                         Ev("reject", "start", s, p, "", TokenError) >>
                 ELSE << >>)
             \o (IF pc = "done" THEN << >> ELSE << ProviderCall("start", s, p, pc, TunnelArg(pc, p)) >>)
    /\ UNCHANGED << variant, ngrokAuthToken, customDomain, occupied,
                    ngrokUrl, ngrokListener, tunnels, stops, listeners, exchange >>

\* a catch block that also closes the bound server
TunnelFailureClosing(s, p, err) ==
    << EmitLog("start", s, p, "error", "Failed to establish ngrok tunnel: " \o err),
       EmitTunnelStatus("start", s, p, "error", err),
       Ev("serverClose", "start", s, p, "", ""),
       Ev("reject", "start", s, p, "", err) >>

\* a catch block that reports the failure and leaves the promise alone
TunnelFailureSilent(s, p, err) ==
    << EmitLog("start", s, p, "error", "Failed to establish ngrok tunnel: " \o err),
       EmitTunnelStatus("start", s, p, "error", err) >>

\* the catch block of tunnel establishment, and the reject(error) that follows it
TunnelFailure(s, p, err) ==
    << EmitLog("start", s, p, "error", "Failed to establish ngrok tunnel: " \o err),
       EmitTunnelStatus("start", s, p, "error", err),
       Ev("reject", "start", s, p, "", err) >>

\* the emits and the resolve(callbackUrl) that follow a tunnel URL
TunnelSuccess(s, p, url) ==
    << EmitTunnelStatus("start", s, p, "info", CallbackUrl(url)),
       Ev("resolve", "start", s, p, "", CallbackUrl(url)) >>

\* this.emit('log', `Using custom domain: ...`) when a custom domain is configured
DomainLog(s, p) ==
    IF customDomain # Null
    THEN << EmitLog("start", s, p, "info", "Using custom domain: " \o customDomain) >>
    ELSE << >>

\* community variant: continuation of `await ngrok.authtoken(...)` in setupNgrokTunnel
AuthtokenReturn(s, ok) ==
    /\ starts[s].pc = "authtoken"
    /\ LET p == starts[s].port IN
        IF ok
        THEN /\ starts' = [starts EXCEPT ![s].pc = "connect"]
             /\ trace' = trace \o << ProviderReturn("start", s, p, "authtoken", "") >>
                               \o DomainLog(s, p)
                               \o << ProviderCall("start", s, p, "connect", TunnelArg("connect", p)) >>
        ELSE /\ starts' = [starts EXCEPT ![s] = [Settle(@, "rejected", ProviderError) EXCEPT !.pc = "done"]]
             /\ trace' = trace \o << ProviderThrow("start", s, p, "authtoken", ProviderError) >>
                               \o TunnelFailure(s, p, ProviderError)
    /\ UNCHANGED << variant, ngrokAuthToken, customDomain, occupied, attempts, server,
                    ngrokUrl, ngrokListener, tunnels, stops, listeners, exchange >>

\* community variant: continuation of `this.ngrokUrl = await ngrok.connect(ngrokOptions)`
ConnectReturn(s, ok, url) ==
    /\ starts[s].pc = "connect"
    /\ LET p == starts[s].port IN
        IF ok
        THEN /\ tunnels' = Append(tunnels, [url |-> url, port |-> p, open |-> TRUE])
             /\ ngrokUrl' = url
             /\ starts' = [starts EXCEPT ![s] = [Settle(@, "fulfilled", CallbackUrl(url)) EXCEPT !.pc = "done"]]
             /\ trace' = trace \o << ProviderReturn("start", s, p, "connect", url) >>
                               \o TunnelSuccess(s, p, url)
        ELSE /\ starts' = [starts EXCEPT ![s] = [Settle(@, "rejected", ProviderError) EXCEPT !.pc = "done"]]
             /\ trace' = trace \o << ProviderThrow("start", s, p, "connect", ProviderError) >>
                               \o TunnelFailure(s, p, ProviderError)
             /\ UNCHANGED << tunnels, ngrokUrl >>
    /\ UNCHANGED << variant, ngrokAuthToken, customDomain, occupied, attempts, server,
                    ngrokListener, stops, listeners, exchange >>

\* sdk variant: continuation of `this.ngrokListener = await ngrok.forward({...})`
ForwardReturn(s, ok, url) ==
    /\ starts[s].pc = "forward"
    /\ LET p == starts[s].port IN
        IF ok
        THEN /\ tunnels' = Append(tunnels, [url |-> url, port |-> p, open |-> TRUE])
             /\ ngrokListener' = Len(tunnels) + 1
             /\ ngrokUrl' = url
             /\ starts' = [starts EXCEPT ![s] = [Settle(@, "fulfilled", CallbackUrl(url)) EXCEPT !.pc = "done"]]
             /\ trace' = trace \o << ProviderReturn("start", s, p, "forward", url) >>
                               \o DomainLog(s, p)
                               \o TunnelSuccess(s, p, url)
        ELSE /\ starts' = [starts EXCEPT ![s] = [Settle(@, "rejected", ProviderError) EXCEPT !.pc = "done"]]
             /\ trace' = trace \o << ProviderThrow("start", s, p, "forward", ProviderError) >>
                               \o TunnelFailure(s, p, ProviderError)
             /\ UNCHANGED << tunnels, ngrokUrl, ngrokListener >>
    /\ UNCHANGED << variant, ngrokAuthToken, customDomain, occupied, attempts, server, stops, listeners, exchange >>

\* What a listener of 'tunnelStatus' does is the application's: emit() calls
\* it synchronously, and what it throws comes out of the emit. The two steps
\* below are the continuations of the provider call when the tunnel is up
\* and a listener throws on the info event: the emit stands inside the try
\* block, so the catch block runs.
ListenerError == "tunnelStatus listener failed"

\* community variant: `this.ngrokUrl = await ngrok.connect(...)` has returned
\* a URL, and the emit of the info event throws
ConnectReturnListenerThrows(s, url) ==
    /\ starts[s].pc = "connect"
    /\ LET p == starts[s].port IN
        /\ tunnels' = Append(tunnels, [url |-> url, port |-> p, open |-> TRUE])
        /\ ngrokUrl' = url
        /\ starts' = [starts EXCEPT ![s] = [Settle(@, "rejected", ListenerError) EXCEPT !.pc = "done"]]
        /\ trace' = trace \o << ProviderReturn("start", s, p, "connect", url),
                                EmitTunnelStatus("start", s, p, "info", CallbackUrl(url)) >>
                          \o TunnelFailure(s, p, ListenerError)
    /\ UNCHANGED << variant, ngrokAuthToken, customDomain, occupied, attempts, server,
                    ngrokListener, stops, listeners, exchange >>

\* sdk variant: `this.ngrokListener = await ngrok.forward({...})` has
\* returned a listener, and the emit of the info event throws
ForwardReturnListenerThrows(s, url) ==
    /\ starts[s].pc = "forward"
    /\ LET p == starts[s].port IN
        /\ tunnels' = Append(tunnels, [url |-> url, port |-> p, open |-> TRUE])
        /\ ngrokListener' = Len(tunnels) + 1
        /\ ngrokUrl' = url
        /\ starts' = [starts EXCEPT ![s] = [Settle(@, "rejected", ListenerError) EXCEPT !.pc = "done"]]
        /\ trace' = trace \o << ProviderReturn("start", s, p, "forward", url) >>
                          \o DomainLog(s, p)
                          \o << EmitTunnelStatus("start", s, p, "info", CallbackUrl(url)) >>
                          \o TunnelFailure(s, p, ListenerError)
    /\ UNCHANGED << variant, ngrokAuthToken, customDomain, occupied, attempts, server, stops, listeners, exchange >>

\* ----------------------------------------------------------------- stop
\* a stop() that leaves the server alone
ServerCloseTraceSkipped(k) == << >>

\* `if (this.server) { this.server.close(); emit 'Callback server stopped' }`
ServerCloseTrace(k) ==
    IF server # 0
    THEN << Ev("serverClose", "stop", k, attempts[server].port, "", ""),
            EmitLog("stop", k, attempts[server].port, "info", "Callback server stopped") >>
    ELSE << >>

ServerCloseAttempts ==
    IF server # 0 THEN [attempts EXCEPT ![server].status = "closed"] ELSE attempts

\* a stop() that gives up on the start() in flight
StopTailCancelling(k) ==
    ServerCloseTrace(k)
    \o [s \in 1 .. Len(starts) |-> Ev("reject", "start", s, 0, "", "stopped")]
    \o << Ev("resolve", "stop", k, 0, "", "") >>

\* the end of stop(): the server block, then the promise of stop() resolves
StopTail(k) == ServerCloseTrace(k) \o << Ev("resolve", "stop", k, 0, "", "") >>

\* a catch block that swallows the teardown error without a word
CleanupCaughtSilent(k, err) == << >>

\* sdk variant: the catch block around the tunnel teardown
CleanupCaught(k, err) ==
    << EmitLog("stop", k, 0, "error", "Error during tunnel cleanup: " \o err) >>

\* the provider closes the tunnels selected by sel
CloseTunnels(sel) ==
    [i \in DOMAIN tunnels |-> IF i \in sel THEN [tunnels[i] EXCEPT !.open = FALSE] ELSE tunnels[i]]

\* which teardown call stop() suspends in first ("none": it runs to its end without suspending)
StopEntry ==
    IF variant = "community"
    THEN (IF ngrokUrl # Null THEN "disconnect" ELSE "none")
    ELSE (IF ngrokListener # 0 THEN "listenerClose"
          ELSE IF ngrokUrl # Null THEN "disconnect" ELSE "disconnectAll")

\* stop(), up to its first await.
\* The caller awaits one stop() before it calls the next (single-caller usage),
\* and makes at most maxStops calls of stop() among at most maxCalls calls.
StopCall(maxStops, maxCalls) ==
    /\ Len(stops) < maxStops
    /\ Len(starts) + Len(stops) < maxCalls
    /\ \A j \in DOMAIN stops : stops[j].state # "pending"
    /\ LET k == Len(stops) + 1
           pc == StopEntry IN
        IF pc = "none"
        THEN /\ stops' = Append(stops, [pc |-> "done", state |-> "fulfilled", value |-> "",
                                        url |-> Null, tun |-> 0])
             /\ attempts' = ServerCloseAttempts
             /\ trace' = trace \o << Ev("stop", "stop", k, 0, "", ""),
                                     EmitLog("stop", k, 0, "info", "Ngrok tunnel closed") >>
                               \o StopTail(k)
        ELSE /\ stops' = Append(stops, [pc |-> pc, state |-> "pending", value |-> "",
                                        url |-> ngrokUrl, tun |-> ngrokListener])
             /\ attempts' = attempts
             /\ trace' = trace \o << Ev("stop", "stop", k, 0, "", ""),
                                     ProviderCall("stop", k, 0, pc, ngrokUrl) >>
    /\ UNCHANGED << variant, ngrokAuthToken, customDomain, occupied, server,
                    ngrokUrl, ngrokListener, tunnels, starts, listeners, exchange >>

stop == StopCall(MaxStops, MaxCalls)

\* continuation of `await ngrok.disconnect(this.ngrokUrl)` (both variants)
StopDisconnectReturn(k, ok) ==
    /\ stops[k].pc = "disconnect"
    /\ tunnels' = IF ok THEN CloseTunnels({ i \in DOMAIN tunnels : tunnels[i].url = stops[k].url })
                  ELSE tunnels
    /\ IF variant = "community"
       THEN IF ok
            THEN /\ stops' = [stops EXCEPT ![k].pc = "done", ![k].state = "fulfilled"]
                 /\ attempts' = ServerCloseAttempts
                 /\ trace' = trace \o << ProviderReturn("stop", k, 0, "disconnect", ""),
                                         EmitLog("stop", k, 0, "info", "Ngrok tunnel closed") >>
                                   \o StopTail(k)
                 /\ UNCHANGED ngrokUrl
            ELSE /\ stops' = [stops EXCEPT ![k].pc = "done", ![k].state = "rejected",
                                           ![k].value = ProviderError]
                 /\ trace' = trace \o << ProviderThrow("stop", k, 0, "disconnect", ProviderError),
                                         Ev("reject", "stop", k, 0, "", ProviderError) >>
                 /\ UNCHANGED << attempts, ngrokUrl >>
       ELSE IF ok
            THEN /\ stops' = [stops EXCEPT ![k].pc = "disconnectAll"]
                 /\ ngrokUrl' = Null
                 /\ trace' = trace \o << ProviderReturn("stop", k, 0, "disconnect", ""),
                                         EmitLog("stop", k, 0, "info", "Disconnected tunnel: " \o ngrokUrl),
                                         ProviderCall("stop", k, 0, "disconnectAll", "") >>
                 /\ UNCHANGED attempts
            ELSE /\ stops' = [stops EXCEPT ![k].pc = "done", ![k].state = "fulfilled"]
                 /\ attempts' = ServerCloseAttempts
                 /\ trace' = trace \o << ProviderThrow("stop", k, 0, "disconnect", ProviderError) >>
                                   \o CleanupCaught(k, ProviderError)
                                   \o StopTail(k)
                 /\ UNCHANGED ngrokUrl
    /\ UNCHANGED << variant, ngrokAuthToken, customDomain, occupied, server,
                    ngrokListener, starts, listeners, exchange >>

\* sdk variant: continuation of `await this.ngrokListener.close()`
StopListenerCloseReturn(k, ok) ==
    /\ stops[k].pc = "listenerClose"
    /\ stops' = [stops EXCEPT ![k].pc = "done", ![k].state = "fulfilled"]
    /\ attempts' = ServerCloseAttempts
    /\ IF ok
       THEN /\ tunnels' = CloseTunnels({stops[k].tun})
            /\ ngrokListener' = 0
            /\ ngrokUrl' = Null
            /\ trace' = trace \o << ProviderReturn("stop", k, 0, "listenerClose", ""),
                                    EmitLog("stop", k, 0, "info", "Ngrok tunnel closed") >>
                              \o StopTail(k)
       ELSE /\ trace' = trace \o << ProviderThrow("stop", k, 0, "listenerClose", ProviderError) >>
                              \o CleanupCaught(k, ProviderError)
                              \o StopTail(k)
            /\ UNCHANGED << tunnels, ngrokListener, ngrokUrl >>
    /\ UNCHANGED << variant, ngrokAuthToken, customDomain, occupied, server, starts, listeners, exchange >>

\* sdk variant: continuation of the fallback `await ngrok.disconnect()`
StopDisconnectAllReturn(k, ok) ==
    /\ stops[k].pc = "disconnectAll"
    /\ stops' = [stops EXCEPT ![k].pc = "done", ![k].state = "fulfilled"]
    /\ attempts' = ServerCloseAttempts
    /\ IF ok
       THEN /\ tunnels' = CloseTunnels(DOMAIN tunnels)
            /\ trace' = trace \o << ProviderReturn("stop", k, 0, "disconnectAll", ""),
                                    EmitLog("stop", k, 0, "info", "All ngrok tunnels closed") >>
                              \o StopTail(k)
       ELSE /\ tunnels' = tunnels
            /\ trace' = trace \o << ProviderThrow("stop", k, 0, "disconnectAll", ProviderError) >>
                              \o CleanupCaught(k, ProviderError)
                              \o StopTail(k)
    /\ UNCHANGED << variant, ngrokAuthToken, customDomain, occupied, server,
                    ngrokUrl, ngrokListener, starts, listeners, exchange >>

\* an accessor that returns the callback URL instead of the tunnel base URL
getPublicUrlWithPath == IF ngrokUrl = Null THEN Null ELSE CallbackUrl(ngrokUrl)

\* getPublicUrl()
getPublicUrl == ngrokUrl

\* ------------------------------------------------------- callback endpoint
\* Text on the wire is a sequence of tokens: words, punctuation, and the
\* string and number literals of JSON.
W(s) == [c |-> "word", s |-> s]
P(s) == [c |-> "punct", s |-> s]
S(s) == [c |-> "str", s |-> s]
N(s) == [c |-> "num", s |-> s]

\* the characters a token stands for
Text(tok) == IF tok.c = "str" THEN "\"" \o tok.s \o "\"" ELSE tok.s

RECURSIVE Join(_)
Join(toks) == IF toks = << >> THEN "" ELSE Text(Head(toks)) \o Join(Tail(toks))

\* position of the first token equal to sep, 0 when there is none
IndexOf(toks, sep) ==
    IF \E i \in DOMAIN toks : toks[i] = sep
    THEN CHOOSE i \in DOMAIN toks : toks[i] = sep /\ \A j \in 1 .. (i - 1) : toks[j] # sep
    ELSE 0

\* String.prototype.split over tokens
RECURSIVE Split(_, _)
Split(toks, sep) ==
    LET i == IndexOf(toks, sep) IN
    IF i = 0 THEN << toks >>
    ELSE << SubSeq(toks, 1, i - 1) >> \o Split(SubSeq(toks, i + 1, Len(toks)), sep)

\* one `key=value` part of a query string or of a form body
KeyOf(part) ==
    LET i == IndexOf(part, P("=")) IN IF i = 0 THEN part ELSE SubSeq(part, 1, i - 1)

ValueOf(part) ==
    LET i == IndexOf(part, P("=")) IN
    IF i = 0 THEN Str("") ELSE Str(Join(SubSeq(part, i + 1, Len(part))))

\* obj[k] = v as both query-string parsers do it: a repeated key collects its
\* values in an array, objects under one key are merged
Put(kv, k, v) ==
    IF \E i \in DOMAIN kv : kv[i].k = k
    THEN [i \in DOMAIN kv |->
            IF kv[i].k # k THEN kv[i]
            ELSE IF kv[i].v.t = "array" THEN Prop(k, Arr([j \in DOMAIN kv[i].v.kv |-> kv[i].v.kv[j].v] \o << v >>))
            ELSE IF kv[i].v.t = "object" /\ v.t = "object" THEN Prop(k, Obj(kv[i].v.kv \o v.kv))
            ELSE Prop(k, Arr(<< kv[i].v, v >>))]
    ELSE Append(kv, Prop(k, v))

\* node:querystring, the "simple" query parser: every key is taken literally
RECURSIVE SimpleParts(_, _)
SimpleParts(parts, kv) ==
    IF parts = << >> THEN kv
    ELSE IF Head(parts) = << >> THEN SimpleParts(Tail(parts), kv)
    ELSE SimpleParts(Tail(parts), Put(kv, Join(KeyOf(Head(parts))), ValueOf(Head(parts))))

ParseSimple(toks) == Obj(SimpleParts(Split(toks, P("&")), << >>))

\* qs, the "extended" parser: a key of the form base[sub] makes a nested object
IsNestedKey(key) ==
    /\ Len(key) = 4
    /\ key[1].c = "word" /\ key[2] = P("[") /\ key[3].c = "word" /\ key[4] = P("]")

\* a key that is one bracket group without a parent, [name], names the
\* property inside the brackets (here: never an array index)
IsBracketedKey(key) ==
    /\ Len(key) >= 3
    /\ key[1] = P("[") /\ key[Len(key)] = P("]")
    /\ \A i \in 2 .. (Len(key) - 1) : key[i] \notin {P("["), P("]")}

RECURSIVE ExtendedParts(_, _)
ExtendedParts(parts, kv) ==
    IF parts = << >> THEN kv
    ELSE IF Head(parts) = << >> THEN ExtendedParts(Tail(parts), kv)
    ELSE LET key == KeyOf(Head(parts))
             v == ValueOf(Head(parts)) IN
         IF IsNestedKey(key)
         THEN ExtendedParts(Tail(parts), Put(kv, key[1].s, Obj(<< Prop(key[3].s, v) >>)))
         ELSE IF IsBracketedKey(key)
         THEN ExtendedParts(Tail(parts), Put(kv, Join(SubSeq(key, 2, Len(key) - 1)), v))
         ELSE ExtendedParts(Tail(parts), Put(kv, Join(key), v))

ParseExtended(toks) == Obj(ExtendedParts(Split(toks, P("&")), << >>))

\* JSON.parse in the strict mode of express.json(): the document must be an
\* object or an array (here: of string and number literals)
IsScalar(tok) == tok.c \in {"str", "num"}
Scalar(tok) == IF tok.c = "str" THEN Str(tok.s) ELSE Num(tok.s)

IsMember(m) == Len(m) = 3 /\ m[1].c = "str" /\ m[2] = P(":") /\ IsScalar(m[3])
IsElement(e) == Len(e) = 1 /\ IsScalar(e[1])

RECURSIVE Members(_, _)
Members(ms, kv) ==
    IF ms = << >> THEN kv
    ELSE Members(Tail(ms),
                 IF \E i \in DOMAIN kv : kv[i].k = Head(ms)[1].s
                 THEN [i \in DOMAIN kv |-> IF kv[i].k = Head(ms)[1].s
                                           THEN Prop(kv[i].k, Scalar(Head(ms)[3])) ELSE kv[i]]
                 ELSE Append(kv, Prop(Head(ms)[1].s, Scalar(Head(ms)[3]))))

ParseJson(toks) ==
    LET n == Len(toks)
        inner == SubSeq(toks, 2, n - 1)
        parts == IF inner = << >> THEN << >> ELSE Split(inner, P(",")) IN
    IF n >= 2 /\ toks[1] = P("{") /\ toks[n] = P("}") /\ \A i \in DOMAIN parts : IsMember(parts[i])
    THEN [ok |-> TRUE, value |-> Obj(Members(parts, << >>))]
    ELSE IF n >= 2 /\ toks[1] = P("[") /\ toks[n] = P("]") /\ \A i \in DOMAIN parts : IsElement(parts[i])
    THEN [ok |-> TRUE, value |-> Arr([i \in DOMAIN parts |-> Scalar(parts[i][1])])]
    ELSE [ok |-> FALSE, value |-> Undefined]

\* the Express major version a build resolves to: 5 in the 0.4.0 - 0.4.2
\* manifests, 4 from 0.4.3 on and in the SDK variant
ExpressVersions(v) == IF v = "sdk" THEN {4} ELSE {4, 5}

JsonType == "application/json"
FormType == "application/x-www-form-urlencoded"

\* a Content-Type header: the media type, then its parameters; << >> when absent
ContentTypes ==
    { << >>, << JsonType >>, << FormType >>, << FormType, "charset=UTF-8" >>, << "text/plain" >> }

QueryTwilio == << W("source"), P("="), W("twilio"), P("&"), W("n"), P("="), W("3") >>
QueryNested == << W("a"), P("["), W("b"), P("]"), P("="), W("1") >>
QueryRepeated == << W("x"), P("="), W("1"), P("&"), W("x"), P("="), W("2") >>
Queries == { QueryTwilio, QueryNested, QueryRepeated }

FormAB == << W("a"), P("="), W("1"), P("&"), W("b"), P("="), W("two") >>
JsonX == << P("{"), S("x"), P(":"), N("1"), P("}") >>
JsonArr == << P("["), N("1"), P(","), N("2"), P("]") >>
Bodies == { FormAB, QueryNested, JsonX, JsonArr }

ListenerKinds == {"returns", "throws"}

OkStatus == 200
ParseFailureStatus == 400
ListenerFailureStatus == 500

\* the media type the body parsers match on
MediaType(header) == IF header = << >> THEN "" ELSE header[1]

\* a test for the media type alone
HeaderEquals(header, needle) == header = << needle >>

\* (req.get('Content-Type') || '').includes(needle)
HeaderIncludes(header, needle) == \E i \in DOMAIN header : header[i] = needle

\* a test that takes every request for a form
DeclaresFormAlways(header) == TRUE

\* contentType.includes('application/x-www-form-urlencoded')
DeclaresForm(header) == HeaderIncludes(header, FormType)

\* a handler that reads the route parameters instead of the query
QueryOfParams(ver, toks) == Obj(<< >>)

\* req.query: the "extended" query parser is the default of Express 4, the
\* "simple" one that of Express 5
QueryOf(ver, toks) == IF ver = 4 THEN ParseExtended(toks) ELSE ParseSimple(toks)

\* req.body when no body parser took the request
BodyDefault(ver) == IF ver = 4 THEN Obj(<< >>) ELSE Undefined

\* express.json() followed by express.urlencoded({ extended: true }): each
\* parses the bodies of its own media type; a body express.json() cannot
\* parse ends the request with an error before the route is reached
BodyParsers(ver, header, raw) ==
    IF MediaType(header) = JsonType
    THEN [ok |-> ParseJson(raw).ok, body |-> ParseJson(raw).value]
    ELSE IF MediaType(header) = FormType
    THEN [ok |-> TRUE, body |-> ParseExtended(raw)]
    ELSE [ok |-> TRUE, body |-> BodyDefault(ver)]

\* req.query and req.body as Express hands them to the route, for every
\* request of the input sets
ReqQuery == [ver \in {4, 5}, query \in Queries |-> QueryOf(ver, query)]

ReqBody == [ver \in {4, 5}, header \in ContentTypes, raw \in Bodies |-> BodyParsers(ver, header, raw)]

\* { ...body }
Spread(v) == IF v.t \in {"object", "array"} THEN Obj(v.kv) ELSE Obj(<< >>)

\* the body the handler emits
NormalizeBody(header, body) == IF DeclaresForm(header) THEN Spread(body) ELSE body

\* EventEmitter.emit calls the listeners in registration order and stops at
\* the first one that throws: the listeners it calls
Invoked ==
    IF \E i \in DOMAIN listeners : listeners[i] = "throws"
    THEN 1 .. (CHOOSE i \in DOMAIN listeners :
                  /\ listeners[i] = "throws"
                  /\ \A j \in 1 .. (i - 1) : listeners[j] # "throws")
    ELSE DOMAIN listeners

EmitThrows == \E i \in DOMAIN listeners : listeners[i] = "throws"

\* this.emit('callback', ...): the emit and the listener calls it makes
EmitCallback(n, port) ==
    << Ev("callback", "request", n, port, "info", "") >>
    \o [i \in Invoked |-> Ev("listener", "request", n, port, ToString(i), listeners[i])]

\* on('callback', listener): the application registers at most maxListeners
Subscribe(kind, maxListeners) ==
    /\ Len(listeners) < maxListeners
    /\ listeners' = Append(listeners, kind)
    /\ UNCHANGED << variant, ngrokAuthToken, customDomain, occupied, attempts, server,
                    ngrokUrl, ngrokListener, tunnels, starts, stops, exchange, trace >>

on(kind) == Subscribe(kind, MaxListeners)

\* what one POST /callback, the n-th, received by the listening server a
\* produces: the body parsers, the route handler, and the response
Handled(n, a, ver, header, query, raw) ==
    LET port == attempts[a].port
        parsed == ReqBody[ver, header, raw]
        queryParameters == ReqQuery[ver, query]
        body == NormalizeBody(header, parsed.body)
        status == IF ~parsed.ok THEN ParseFailureStatus
                  ELSE IF EmitThrows THEN ListenerFailureStatus ELSE OkStatus
        text == IF status = OkStatus THEN "Callback received" ELSE "error" IN
    [root |-> exchange.root,
     n |-> n, header |-> header, query |-> query, raw |-> raw, express |-> ver,
     port |-> port, registered |-> listeners, routed |-> parsed.ok,
     queryParameters |-> IF parsed.ok THEN queryParameters ELSE Undefined,
     body |-> IF parsed.ok THEN body ELSE Undefined,
     status |-> status, text |-> text,
     events |->
        (IF parsed.ok /\ DeclaresForm(header)
         THEN << EmitLog("request", n, port, "info",
                         "application/x-www-form-urlencoded received, so converting to JSON") >>
         ELSE << >>)
        \o (IF parsed.ok THEN EmitCallback(n, port) ELSE << >>)
        \o << Ev("response", "request", n, port, ToString(status), text) >>]

\* a handler that awaits its listeners and has not answered when it returns
PostCallbackAwaiting(a, ver, header, query, raw) ==
    /\ exchange.n < MaxRequests
    /\ attempts[a].status = "listening"
    /\ ver \in ExpressVersions(variant)
    /\ LET h == Handled(exchange.n + 1, a, ver, header, query, raw) IN
        exchange' = [h EXCEPT !.status = 0, !.text = "",
                              !.events = SubSeq(h.events, 1, Len(h.events) - 1)]
    /\ UNCHANGED << variant, ngrokAuthToken, customDomain, occupied, attempts, server,
                    ngrokUrl, ngrokListener, tunnels, starts, stops, listeners, trace >>

\* a handler that takes the public URL from the request it received
PostCallbackKeepingHost(a, ver, header, query, raw) ==
    /\ exchange.n < MaxRequests
    /\ attempts[a].status = "listening"
    /\ ver \in ExpressVersions(variant)
    /\ exchange' = Handled(exchange.n + 1, a, ver, header, query, raw)
    /\ ngrokUrl' = "https://localhost"
    /\ UNCHANGED << variant, ngrokAuthToken, customDomain, occupied, attempts, server,
                    ngrokListener, tunnels, starts, stops, listeners, trace >>

\* one POST /callback received by the listening server a, handled in one
\* step: nothing in the parsers' callback chain or in the route handler waits
\* for anything once the body has been read. The handler keeps nothing of a
\* request once it has answered: exchange holds the latest one only.
PostCallback(a, ver, header, query, raw) ==
    /\ exchange.n < MaxRequests
    /\ attempts[a].status = "listening"
    /\ ver \in ExpressVersions(variant)
    /\ exchange' = Handled(exchange.n + 1, a, ver, header, query, raw)
    /\ UNCHANGED << variant, ngrokAuthToken, customDomain, occupied, attempts, server,
                    ngrokUrl, ngrokListener, tunnels, starts, stops, listeners, trace >>

\* GET /: res.send('POST status callbacks to /callback')
RootText == "POST status callbacks to /callback"

\* one GET / received by the listening server a: the static text, and nothing else
GetRoot(a) ==
    /\ exchange.root.n < MaxRequests
    /\ attempts[a].status = "listening"
    /\ exchange' = [exchange EXCEPT !.root = [n |-> @.n + 1, status |-> OkStatus, text |-> RootText]]
    /\ UNCHANGED << variant, ngrokAuthToken, customDomain, occupied, attempts, server,
                    ngrokUrl, ngrokListener, tunnels, starts, stops, listeners, trace >>

Next ==
    \/ start
    \/ \E a \in DOMAIN attempts : \E code \in {EADDRINUSE, EACCES} : OnBindError(a, code)
    \/ \E a \in DOMAIN attempts : OnListening(a)
    \/ \E s \in DOMAIN starts : \E ok \in BOOLEAN : AuthtokenReturn(s, ok)
    \/ \E s \in DOMAIN starts : \E ok \in BOOLEAN : ConnectReturn(s, ok, ProviderUrl(customDomain, Len(tunnels) + 1))
    \/ \E s \in DOMAIN starts : \E ok \in BOOLEAN : ForwardReturn(s, ok, ProviderUrl(customDomain, Len(tunnels) + 1))
    \/ stop
    \/ \E k \in DOMAIN stops : \E ok \in BOOLEAN : StopDisconnectReturn(k, ok)
    \/ \E k \in DOMAIN stops : \E ok \in BOOLEAN : StopListenerCloseReturn(k, ok)
    \/ \E k \in DOMAIN stops : \E ok \in BOOLEAN : StopDisconnectAllReturn(k, ok)

Spec == Init /\ [][Next]_vars

\* Every bind attempt reports its event, and every call start() makes into
\* the tunnel provider answers: the operating system and the provider are
\* live. Nothing is assumed of the caller, nor of the teardown calls.
BindAnswer ==
    \E a \in DOMAIN attempts :
        \/ OnListening(a)
        \/ \E code \in {EADDRINUSE, EACCES} : OnBindError(a, code)

ProviderAnswer ==
    \E s \in DOMAIN starts : \E ok \in BOOLEAN :
        \/ AuthtokenReturn(s, ok)
        \/ ConnectReturn(s, ok, ProviderUrl(customDomain, Len(tunnels) + 1))
        \/ ForwardReturn(s, ok, ProviderUrl(customDomain, Len(tunnels) + 1))

LiveSpec == Init /\ [][Next]_vars /\ WF_vars(BindAnswer) /\ WF_vars(ProviderAnswer)

\* The callback endpoint reads and writes none of the lifecycle state, and no
\* lifecycle step reads a request: the endpoint is checked with the lifecycle
\* reduced to bringing the server of a configured handler up, on a machine
\* whose ports are free.
CallbackInit == Init /\ occupied = {} /\ customDomain = Null /\ ngrokAuthToken = "tok"

CallbackNext ==
    \/ start
    \/ \E a \in DOMAIN attempts : \E code \in {EADDRINUSE, EACCES} : OnBindError(a, code)
    \/ \E a \in DOMAIN attempts : OnListening(a)
    \/ \E kind \in ListenerKinds : on(kind)
    \/ \E a \in DOMAIN attempts : \E ver \in {4, 5} : \E header \in ContentTypes :
          \E query \in Queries : \E raw \in Bodies : PostCallback(a, ver, header, query, raw)

CallbackSpec == CallbackInit /\ [][CallbackNext]_vars

\* The requests that differ in what the endpoint produces for them: a JSON
\* document, a body that express.json() rejects, and a form.
ShapeHeaders == { << JsonType >>, << FormType >> }
ShapeBodies == { FormAB, JsonX }

\* The endpoint next to the lifecycle: requests (GET / and POST /callback)
\* arrive at any time while a server of the handler listens, also while
\* start() is suspended in the provider call and while stop() is suspended
\* in its teardown call, and listeners are registered at any time.
RequestNext ==
    \/ start
    \/ \E a \in DOMAIN attempts : \E code \in {EADDRINUSE, EACCES} : OnBindError(a, code)
    \/ \E a \in DOMAIN attempts : OnListening(a)
    \/ stop
    \/ \E k \in DOMAIN stops : \E ok \in BOOLEAN : StopDisconnectAllReturn(k, ok)
    \/ \E kind \in ListenerKinds : Subscribe(kind, MaxSubscribers)
    \/ \E a \in DOMAIN attempts : \E ver \in {4, 5} : \E header \in ShapeHeaders :
          \E raw \in ShapeBodies : PostCallback(a, ver, header, QueryTwilio, raw)
    \/ \E a \in DOMAIN attempts : GetRoot(a)

RequestSpec == CallbackInit /\ [][RequestNext]_vars

\* A handler whose start() is called again after an earlier start() has
\* settled: the lifecycle with room for a second start(), on a machine whose
\* ports are free and without a reserved hostname.
RestartInit == Init /\ occupied = {} /\ customDomain = Null

RestartNext ==
    \/ StartCall(MaxRestarts, MaxRestartCalls)
    \/ \E a \in DOMAIN attempts : \E code \in {EADDRINUSE, EACCES} : OnBindError(a, code)
    \/ \E a \in DOMAIN attempts : OnListening(a)
    \/ \E s \in DOMAIN starts : \E ok \in BOOLEAN : AuthtokenReturn(s, ok)
    \/ \E s \in DOMAIN starts : \E ok \in BOOLEAN : ConnectReturn(s, ok, ProviderUrl(customDomain, Len(tunnels) + 1))
    \/ \E s \in DOMAIN starts : \E ok \in BOOLEAN : ForwardReturn(s, ok, ProviderUrl(customDomain, Len(tunnels) + 1))
    \/ StopCall(MaxStops, MaxRestartCalls)
    \/ \E k \in DOMAIN stops : \E ok \in BOOLEAN : StopDisconnectReturn(k, ok)
    \/ \E k \in DOMAIN stops : \E ok \in BOOLEAN : StopListenerCloseReturn(k, ok)
    \/ \E k \in DOMAIN stops : \E ok \in BOOLEAN : StopDisconnectAllReturn(k, ok)

RestartSpec == RestartInit /\ [][RestartNext]_vars

\* A machine on which other processes hold every port from the default port
\* up to some port, possibly up to the last one.
PortRangeInit ==
    /\ variant \in Variants
    /\ ngrokAuthToken \in Tokens
    /\ customDomain \in Domains
    /\ occupied \in { DefaultPort .. q : q \in DefaultPort .. MaxPort }
    /\ attempts = << >>
    /\ server = 0
    /\ ngrokUrl = Null
    /\ ngrokListener = 0
    /\ tunnels = << >>
    /\ starts = << >>
    /\ stops = << >>
    /\ listeners = << >>
    /\ exchange = NoExchange
    /\ trace = << >>

PortRangeSpec == PortRangeInit /\ [][Next]_vars

\* The lifecycle with an application whose 'tunnelStatus' listener may throw.
StatusNext ==
    \/ Next
    \/ \E s \in DOMAIN starts : ConnectReturnListenerThrows(s, ProviderUrl(customDomain, Len(tunnels) + 1))
    \/ \E s \in DOMAIN starts : ForwardReturnListenerThrows(s, ProviderUrl(customDomain, Len(tunnels) + 1))

StatusSpec == Init /\ [][StatusNext]_vars

\* ------------------------------------------------- singleton variant
\* The utility the package grew out of (utils/callbackHandler.ts): one
\* exported instance, constructed without configuration; start() takes the
\* token and the reserved hostname, returns nothing, and keeps both in the
\* instance once a port is bound. Checked on a machine whose ports are free.
SingletonInit ==
    /\ variant = "singleton"
    /\ ngrokAuthToken = ""
    /\ customDomain = Null
    /\ occupied = {}
    /\ attempts = << >>
    /\ server = 0
    /\ ngrokUrl = Null
    /\ ngrokListener = 0
    /\ tunnels = << >>
    /\ starts = << >>
    /\ stops = << >>
    /\ listeners = << >>
    /\ exchange = NoExchange
    /\ trace = << >>

\* `throw error` in the 'error' handler of a server: nothing catches it, and
\* the process ends
SingletonCrashed == \E s \in DOMAIN starts : starts[s].pc = "thrown"

\* this.port: the constructor's default until a 'listening' handler stores the
\* bound port together with the server
SingletonPort == IF server = 0 THEN DefaultPort ELSE attempts[server].port

\* start(ngrokAuthToken, customDomain?): startServer() with this.port; the
\* arguments stay in the closure of the handlers
SingletonStart(token, domain) ==
    /\ ~SingletonCrashed
    /\ Len(starts) < MaxSingletonStarts
    /\ Len(starts) + Len(stops) < MaxSingletonCalls
    /\ LET s == Len(starts) + 1 IN
        /\ starts' = Append(starts, [pc |-> "binding", state |-> "returned", value |-> Null,
                                     calls |-> 0, port |-> SingletonPort,
                                     token |-> token, domain |-> domain])
        /\ attempts' = startServer(attempts, s, SingletonPort)
        /\ trace' = trace \o << Ev("start", "start", s, 0, "", ""),
                                Ev("bind", "start", s, SingletonPort, "", "") >>
    /\ UNCHANGED << variant, ngrokAuthToken, customDomain, occupied, server,
                    ngrokUrl, ngrokListener, tunnels, stops, listeners, exchange >>

\* serverAttempt.on('error', ...): retry on EADDRINUSE, `throw error` otherwise
SingletonOnBindError(a, code) ==
    /\ ~SingletonCrashed
    /\ attempts[a].status = "pending"
    /\ code \in BindErrors(a)
    /\ LET s == attempts[a].start
           p == attempts[a].port IN
        IF IsAddrInUse(code)
        THEN /\ attempts' = startServer([attempts EXCEPT ![a].status = "closed"], s, NextPort(p))
             /\ starts' = [starts EXCEPT ![s].port = NextPort(p)]
             /\ trace' = trace \o << Ev("bindError", "start", s, p, "", code),
                                     EmitLog("start", s, p, "warn", "Port in use, trying next port"),
                                     Ev("bind", "start", s, NextPort(p), "", "") >>
        ELSE /\ attempts' = [attempts EXCEPT ![a].status = "error"]
             /\ starts' = [starts EXCEPT ![s].pc = "thrown"]
             /\ trace' = trace \o << Ev("bindError", "start", s, p, "", code),
                                     EmitLog("start", s, p, "error", "Start server Error: " \o code),
                                     Ev("throw", "start", s, p, "", code) >>
    /\ UNCHANGED << variant, ngrokAuthToken, customDomain, occupied, server,
                    ngrokUrl, ngrokListener, tunnels, stops, listeners, exchange >>

\* the catch block of setupNgrokTunnel: console.error and the error event;
\* nothing is thrown on
SingletonTunnelFailure(s, p, err) ==
    << Ev("console", "start", s, p, "error", "Failed to establish ngrok tunnel: " \o err),
       EmitTunnelStatus("start", s, p, "error", err) >>

\* serverAttempt.on('listening', ...): the bound port, the two arguments of
\* start() and the server go into the instance, then setupNgrokTunnel() runs
\* up to its first await
SingletonOnListening(a) ==
    /\ ~SingletonCrashed
    /\ attempts[a].status = "pending"
    /\ ~PortInUse(attempts[a].port)
    /\ LET s == attempts[a].start
           p == attempts[a].port
           token == starts[s].token IN
        /\ attempts' = [attempts EXCEPT ![a].status = "listening"]
        /\ ngrokAuthToken' = token
        /\ customDomain' = starts[s].domain
        /\ server' = a
        /\ starts' = [starts EXCEPT ![s].pc = IF TokenMissing(token) THEN "done" ELSE "authtoken"]
        /\ trace' = trace
             \o << Ev("listening", "start", s, p, "", ""),
                   EmitLog("start", s, p, "info", "Callback server listening") >>
             \o (IF TokenMissing(token)
                 THEN SingletonTunnelFailure(s, p, "NGROK_AUTH_TOKEN not found in environment variables")
                 ELSE << ProviderCall("start", s, p, "authtoken", token) >>)
    /\ UNCHANGED << variant, occupied, ngrokUrl, ngrokListener, tunnels, stops, listeners, exchange >>

\* continuation of `await ngrok.authtoken(this.ngrokAuthToken)`: the options
\* are built from the instance as it is now
SingletonAuthtokenReturn(s, ok) ==
    /\ ~SingletonCrashed
    /\ starts[s].pc = "authtoken"
    /\ LET p == starts[s].port IN
        IF ok
        THEN /\ starts' = [starts EXCEPT ![s].pc = "connect"]
             /\ trace' = trace \o << ProviderReturn("start", s, p, "authtoken", "") >>
                               \o DomainLog(s, p)
                               \o << ProviderCall("start", s, p, "connect", TunnelOptions(SingletonPort)) >>
        ELSE /\ starts' = [starts EXCEPT ![s].pc = "done"]
             /\ trace' = trace \o << ProviderThrow("start", s, p, "authtoken", ProviderError) >>
                               \o SingletonTunnelFailure(s, p, ProviderError)
    /\ UNCHANGED << variant, ngrokAuthToken, customDomain, occupied, attempts, server,
                    ngrokUrl, ngrokListener, tunnels, stops, listeners, exchange >>

\* continuation of `this.ngrokUrl = await ngrok.connect(ngrokOptions)`
SingletonConnectReturn(s, ok, url) ==
    /\ ~SingletonCrashed
    /\ starts[s].pc = "connect"
    /\ starts' = [starts EXCEPT ![s].pc = "done"]
    /\ LET p == starts[s].port IN
        IF ok
        THEN /\ tunnels' = Append(tunnels, [url |-> url, port |-> p, open |-> TRUE])
             /\ ngrokUrl' = url
             /\ trace' = trace \o << ProviderReturn("start", s, p, "connect", url),
                                     EmitTunnelStatus("start", s, p, "info", CallbackUrl(url)) >>
        ELSE /\ trace' = trace \o << ProviderThrow("start", s, p, "connect", ProviderError) >>
                               \o SingletonTunnelFailure(s, p, ProviderError)
             /\ UNCHANGED << tunnels, ngrokUrl >>
    /\ UNCHANGED << variant, ngrokAuthToken, customDomain, occupied, attempts, server,
                    ngrokListener, stops, listeners, exchange >>

\* stop(), up to `await ngrok.kill()`, or to its end when no tunnel URL is held
SingletonStop ==
    /\ ~SingletonCrashed
    /\ Len(stops) < MaxStops
    /\ Len(starts) + Len(stops) < MaxSingletonCalls
    /\ \A j \in DOMAIN stops : stops[j].state # "pending"
    /\ LET k == Len(stops) + 1 IN
        IF ngrokUrl = Null
        THEN /\ stops' = Append(stops, [pc |-> "done", state |-> "fulfilled", value |-> "",
                                        url |-> Null, tun |-> 0])
             /\ attempts' = ServerCloseAttempts
             /\ trace' = trace \o << Ev("stop", "stop", k, 0, "", "") >> \o StopTail(k)
        ELSE /\ stops' = Append(stops, [pc |-> "kill", state |-> "pending", value |-> "",
                                        url |-> ngrokUrl, tun |-> 0])
             /\ attempts' = attempts
             /\ trace' = trace \o << Ev("stop", "stop", k, 0, "", ""),
                                     ProviderCall("stop", k, 0, "kill", "") >>
    /\ UNCHANGED << variant, ngrokAuthToken, customDomain, occupied, server,
                    ngrokUrl, ngrokListener, tunnels, starts, listeners, exchange >>

\* continuation of `await ngrok.kill()`: the provider process is gone, and
\* every tunnel with it; this.ngrokUrl keeps its value
SingletonKillReturn(k, ok) ==
    /\ ~SingletonCrashed
    /\ stops[k].pc = "kill"
    /\ IF ok
       THEN /\ stops' = [stops EXCEPT ![k].pc = "done", ![k].state = "fulfilled"]
            /\ tunnels' = CloseTunnels(DOMAIN tunnels)
            /\ attempts' = ServerCloseAttempts
            /\ trace' = trace \o << ProviderReturn("stop", k, 0, "kill", ""),
                                    EmitLog("stop", k, 0, "info", "Ngrok tunnel closed") >>
                              \o StopTail(k)
       ELSE /\ stops' = [stops EXCEPT ![k].pc = "done", ![k].state = "rejected",
                                      ![k].value = ProviderError]
            /\ trace' = trace \o << ProviderThrow("stop", k, 0, "kill", ProviderError),
                                    Ev("reject", "stop", k, 0, "", ProviderError) >>
            /\ UNCHANGED << tunnels, attempts >>
    /\ UNCHANGED << variant, ngrokAuthToken, customDomain, occupied, server,
                    ngrokUrl, ngrokListener, starts, listeners, exchange >>

\* one POST /callback received by the listening server a: the parsed body
\* goes to the listeners as it is, then 200 'Callback received'
SingletonPostCallback(a, ver, header, raw) ==
    /\ ~SingletonCrashed
    /\ exchange.n < MaxRequests
    /\ attempts[a].status = "listening"
    /\ LET n == exchange.n + 1
           port == attempts[a].port
           parsed == ReqBody[ver, header, raw]
           status == IF ~parsed.ok THEN ParseFailureStatus
                     ELSE IF EmitThrows THEN ListenerFailureStatus ELSE OkStatus
           text == IF status = OkStatus THEN "Callback received" ELSE "error" IN
        exchange' =
            [root |-> exchange.root,
             n |-> n, header |-> header, query |-> << >>, raw |-> raw, express |-> ver,
             port |-> port, registered |-> listeners, routed |-> parsed.ok,
             queryParameters |-> Undefined,
             body |-> IF parsed.ok THEN parsed.body ELSE Undefined,
             status |-> status, text |-> text,
             events |-> (IF parsed.ok THEN EmitCallback(n, port) ELSE << >>)
                        \o << Ev("response", "request", n, port, ToString(status), text) >>]
    /\ UNCHANGED << variant, ngrokAuthToken, customDomain, occupied, attempts, server,
                    ngrokUrl, ngrokListener, tunnels, starts, stops, listeners, trace >>

SingletonNext ==
    \/ \E token \in Tokens : \E domain \in Domains : SingletonStart(token, domain)
    \/ \E a \in DOMAIN attempts : \E code \in {EADDRINUSE, EACCES} : SingletonOnBindError(a, code)
    \/ \E a \in DOMAIN attempts : SingletonOnListening(a)
    \/ \E s \in DOMAIN starts : \E ok \in BOOLEAN : SingletonAuthtokenReturn(s, ok)
    \/ \E s \in DOMAIN starts : \E ok \in BOOLEAN :
          SingletonConnectReturn(s, ok, ProviderUrl(customDomain, Len(tunnels) + 1))
    \/ SingletonStop
    \/ \E k \in DOMAIN stops : \E ok \in BOOLEAN : SingletonKillReturn(k, ok)
    \/ \E kind \in ListenerKinds : ~SingletonCrashed /\ on(kind)
    \/ \E a \in DOMAIN attempts : \E raw \in ShapeBodies :
          SingletonPostCallback(a, 4, << JsonType >>, raw)

SingletonSpec == SingletonInit /\ [][SingletonNext]_vars

\* ------------------------------------------------------ trace vocabulary
IsEv(i, kind, op, id) ==
    /\ trace[i].kind = kind
    /\ trace[i].op = op
    /\ trace[i].id = id

\* the ports start() s asked app.listen for, in order
BindPorts(s) ==
    LET sel == SelectSeq(trace, LAMBDA e : e.kind = "bind" /\ e.op = "start" /\ e.id = s)
    IN [i \in DOMAIN sel |-> sel[i].port]

\* the bind attempts and the warn-level log events of start() s, in order
SkipSeq(s) ==
    SelectSeq(trace, LAMBDA e : /\ e.op = "start" /\ e.id = s
                                /\ \/ e.kind = "bind"
                                   \/ e.kind = "log" /\ e.level = "warn")

\* the resolve and reject calls of start() s, in order
SettleSeq(s) ==
    SelectSeq(trace, LAMBDA e : e.op = "start" /\ e.id = s /\ e.kind \in {"resolve", "reject"})

\* N: how many consecutive ports, from the default port on, other processes hold
ConsecutiveOccupied ==
    CHOOSE n \in 0 .. Cardinality(occupied) :
        /\ \A i \in 0 .. (n - 1) : (DefaultPort + i) \in occupied
        /\ (DefaultPort + n) \notin occupied

\* ------------------------------------------------------------------ C1
\* C1: one start() attempts base, base+1, ... in that order, one port at a
\* time; every skipped port gets exactly one warn log, emitted after the
\* bind error of that port and before the next port is attempted; with N
\* consecutive occupied ports from the base port, the first start() of a
\* handler never goes beyond base+N and its server listens on base+N, after
\* exactly N warnings.
C1_PortMonotonicity ==
    /\ \A s \in DOMAIN starts :
          LET q == SkipSeq(s) IN
          /\ Len(q) % 2 = 1
          /\ \A i \in DOMAIN q :
                IF i % 2 = 1
                THEN q[i].kind = "bind" /\ q[i].port = DefaultPort + ((i - 1) \div 2)
                ELSE q[i].kind = "log" /\ q[i].port = DefaultPort + ((i - 2) \div 2)
          /\ q[Len(q)].port = starts[s].port
          /\ s = 1 => Len(q) <= 2 * ConsecutiveOccupied + 1
    /\ \A i \in DOMAIN trace :
          LET e == trace[i] IN
          /\ (e.kind = "log" /\ e.level = "warn") =>
                /\ i > 1 /\ i < Len(trace)
                /\ IsEv(i - 1, "bindError", "start", e.id)
                /\ trace[i - 1].port = e.port
                /\ trace[i - 1].msg = "EADDRINUSE"
                /\ IsEv(i + 1, "bind", "start", e.id)
          /\ e.kind = "listening" =>
                /\ e.port = starts[e.id].port
                /\ e.id = 1 =>
                      /\ e.port = DefaultPort + ConsecutiveOccupied
                      /\ Len(SkipSeq(1)) = 2 * ConsecutiveOccupied + 1

\* the first start() skipped two occupied ports and its server listens on the third
C1_Witness ==
    /\ ConsecutiveOccupied = 2
    /\ \E i \in DOMAIN trace :
          IsEv(i, "listening", "start", 1) /\ trace[i].port = DefaultPort + 2
    /\ Len(SkipSeq(1)) = 5

\* ------------------------------------------------------------------ C2
TunnelSetupFns == {"authtoken", "connect", "forward"}

\* C2: every call start() makes into the tunnel provider comes after the
\* 'listening' event of its latest bind attempt, on the port of that event:
\* never while that attempt is pending, never for an attempt that failed.
C2_BindBeforeTunnel ==
    \A i \in DOMAIN trace :
        (trace[i].kind = "providerCall" /\ trace[i].op = "start") =>
            \E j \in 1 .. (i - 1) :
                /\ IsEv(j, "listening", "start", trace[i].id)
                /\ trace[j].port = trace[i].port
                /\ \A m \in (j + 1) .. (i - 1) :
                      ~ (trace[m].op = "start" /\ trace[m].id = trace[i].id
                         /\ trace[m].kind \in {"bind", "bindError", "listening"})

\* the provider was called by a start() that first had to skip an occupied port
C2_Witness ==
    \E i \in DOMAIN trace :
        /\ trace[i].kind = "providerCall" /\ trace[i].op = "start"
        /\ trace[i].level \in TunnelSetupFns
        /\ trace[i].port > DefaultPort

\* ------------------------------------------------------------------ C3
C3_SettledOnce ==
    \A s \in DOMAIN starts :
        LET q == SettleSeq(s) IN
        /\ starts[s].calls <= 1
        /\ Len(q) = starts[s].calls
        /\ starts[s].state = "pending" <=> starts[s].calls = 0
        /\ starts[s].state = "fulfilled" =>
              /\ q[1].kind = "resolve"
              /\ q[1].msg = starts[s].value
              /\ starts[s].value # ""
              /\ starts[s].value # Null
              /\ \E u \in Urls : starts[s].value = u \o "/callback"
        /\ starts[s].state = "rejected" =>
              /\ q[1].kind = "reject"
              /\ q[1].msg = starts[s].value
              /\ starts[s].value \in {"EACCES", "ERR_NGROK", "Ngrok auth token not provided"}

C3_OutcomeKept ==
    \A s \in DOMAIN starts :
        starts[s].state # "pending" =>
            /\ starts'[s].state = starts[s].state
            /\ starts'[s].value = starts[s].value

\* C3: a start() promise is settled by exactly one resolve or reject call,
\* fulfilled with a non-empty callback URL or rejected with an error, and
\* nothing that happens later changes the outcome it delivered.
C3_SettlesExactlyOnce == [] C3_SettledOnce /\ [][C3_OutcomeKept]_vars

\* a start() was fulfilled and a whole stop() ran after it
C3_Witness ==
    \E s \in DOMAIN starts :
        /\ starts[s].state = "fulfilled"
        /\ \E i \in DOMAIN trace : \E j \in DOMAIN trace :
              /\ IsEv(i, "resolve", "start", s)
              /\ j > i /\ trace[j].kind = "resolve" /\ trace[j].op = "stop"

TunnelFailureCauses == {"Ngrok auth token not provided", "ERR_NGROK"}

\* C5: whenever tunnel establishment fails, the missing token included,
\* start() emits an error-level log, then a tunnelStatus event of level error
\* carrying the cause, and then rejects with that same cause.
C5_TunnelFailureEvents ==
    \A r \in DOMAIN trace :
        (trace[r].kind = "reject" /\ trace[r].op = "start"
            /\ trace[r].msg \in TunnelFailureCauses) =>
            \E l \in 1 .. (r - 1) : \E t \in 1 .. (r - 1) :
                /\ l < t
                /\ IsEv(l, "log", "start", trace[r].id)
                /\ trace[l].level = "error"
                /\ IsEv(t, "tunnelStatus", "start", trace[r].id)
                /\ trace[t].level = "error"
                /\ trace[t].msg = trace[r].msg

\* ------------------------------------------------------------------ C6
\* C6 as claimed: with an empty token start() never calls the provider and
\* never tries a second port.
C6_NoRetryWithoutToken ==
    ngrokAuthToken = "" =>
        \A s \in DOMAIN starts :
            /\ \A i \in DOMAIN trace : ~ IsEv(i, "providerCall", "start", s)
            /\ Len(BindPorts(s)) <= 1

\* C6 as amended: with an empty token start() never calls the provider; it
\* skips occupied ports as usual, and once a bind succeeds it rejects with
\* the missing-token error and tries no port beyond the one it bound.
C6_CredentialGuard ==
    ngrokAuthToken = "" =>
        \A i \in DOMAIN trace :
            LET e == trace[i] IN
            e.op = "start" =>
                /\ e.kind \notin {"providerCall", "providerReturn", "resolve"}
                /\ e.kind = "listening" =>
                      /\ starts[e.id].state = "rejected"
                      /\ starts[e.id].value = "Ngrok auth token not provided"
                      /\ e.port = starts[e.id].port
                      /\ \A j \in (i + 1) .. Len(trace) :
                            (trace[j].op = "start" /\ trace[j].id = e.id) =>
                                trace[j].kind \in {"log", "reject"}

\* an empty token, an occupied base port: start() rejected after binding the next port
C6_Witness ==
    /\ ngrokAuthToken = ""
    /\ \E s \in DOMAIN starts :
          /\ starts[s].state = "rejected"
          /\ starts[s].value = "Ngrok auth token not provided"
          /\ Len(BindPorts(s)) >= 2

\* ------------------------------------------------------------------ C7
\* C7: a bind error other than port-in-use is followed by an error-level log
\* and the rejection of start() with that error; that start() binds no
\* further port and never calls the tunnel provider.
C7_BindFailureTerminal ==
    \A i \in DOMAIN trace :
        (trace[i].kind = "bindError" /\ trace[i].op = "start"
            /\ trace[i].msg # "EADDRINUSE") =>
            LET s == trace[i].id IN
            /\ i + 2 <= Len(trace)
            /\ IsEv(i + 1, "log", "start", s)
            /\ trace[i + 1].level = "error"
            /\ IsEv(i + 2, "reject", "start", s)
            /\ trace[i + 2].msg = trace[i].msg
            /\ starts[s].state = "rejected"
            /\ starts[s].value = trace[i].msg
            /\ \A j \in DOMAIN trace :
                  (trace[j].op = "start" /\ trace[j].id = s) =>
                      /\ j <= i + 2
                      /\ trace[j].kind \notin {"listening", "providerCall"}

\* a start() skipped an occupied port and was then rejected with EACCES
C7_Witness ==
    \E s \in DOMAIN starts :
        /\ starts[s].state = "rejected"
        /\ starts[s].value = "EACCES"
        /\ Len(BindPorts(s)) >= 2

\* ------------------------------------------------------------------ C8
\* C8: stop() always resolves; a teardown failure never rejects its promise.
C8_StopAlwaysResolves ==
    \A k \in DOMAIN stops : stops[k].state # "rejected"

\* ------------------------------------------------------------------ C9
\* C9: when a server is bound and the tunnel teardown of a stop() fails, that
\* stop() still attempts the server close.
C9_ServerCloseAfterTunnelFailure ==
    \A i \in DOMAIN trace :
        (/\ trace[i].kind = "providerThrow" /\ trace[i].op = "stop"
         /\ \E l \in 1 .. (i - 1) : trace[l].kind = "listening") =>
            \E j \in DOMAIN trace : j > i /\ IsEv(j, "serverClose", "stop", trace[i].id)

\* ----------------------------------------------------------------- C10
\* nothing is running when stop() is called at position i: start() was never
\* called, or a stop() called after everything start() did has resolved
NothingRunningAt(i) ==
    \/ \A j \in 1 .. (i - 1) : trace[j].op # "start"
    \/ \E c \in 1 .. (i - 1) : \E r \in 1 .. (i - 1) :
          /\ c < r
          /\ trace[c].kind = "stop"
          /\ IsEv(r, "resolve", "stop", trace[c].id)
          /\ \A j \in 1 .. (i - 1) : trace[j].op = "start" => j < c

\* C10: a stop() called when nothing is running calls no provider, closes no
\* server, emits no event and resolves.
C10_IdleStopDoesNothing ==
    \A i \in DOMAIN trace :
        (trace[i].kind = "stop" /\ NothingRunningAt(i)) =>
            LET k == trace[i].id IN
            /\ stops[k].state # "rejected"
            /\ \A j \in DOMAIN trace :
                  (trace[j].op = "stop" /\ trace[j].id = k) => trace[j].kind \in {"stop", "resolve"}

\* ----------------------------------------------------------------- C11
\* C11: server handle, public URL and tunnel handle are null at construction
\* and null again as soon as a stop() has completed; getPublicUrl() then
\* returns null.
C11_FieldsNullAfterStop ==
    /\ trace = << >> => (server = 0 /\ ngrokUrl = Null /\ ngrokListener = 0)
    /\ (/\ Len(trace) > 0
        /\ trace[Len(trace)].kind = "resolve"
        /\ trace[Len(trace)].op = "stop") =>
            /\ server = 0
            /\ ngrokListener = 0
            /\ getPublicUrl = Null

C13_ServerLeftRunning ==
    /\ \A i \in DOMAIN trace : ~ (trace[i].kind = "serverClose" /\ trace[i].op = "start")
    /\ \A s \in DOMAIN starts :
          (starts[s].state = "rejected" /\ starts[s].value \in TunnelFailureCauses) =>
              /\ server # 0
              /\ \E a \in DOMAIN attempts :
                    /\ attempts[a].start = s
                    /\ attempts[a].port = starts[s].port
                    /\ server >= a
                    /\ \/ attempts[a].status = "listening"
                       \/ /\ attempts[a].status = "closed"
                          /\ \E j \in DOMAIN trace :
                                /\ trace[j].kind = "serverClose"
                                /\ trace[j].op = "stop"
                                /\ trace[j].port = attempts[a].port

\* start() was rejected by a provider failure and its server still listens
C13_Witness ==
    /\ server # 0
    /\ attempts[server].status = "listening"
    /\ starts[attempts[server].start].state = "rejected"
    /\ starts[attempts[server].start].value = "ERR_NGROK"

\* ----------------------------------------------------------------- C14
TeardownFns == {"disconnect", "listenerClose"}

\* a start() has resolved before position i and no tunnel teardown has
\* succeeded since
TunnelUpAt(i) ==
    \E r \in 1 .. (i - 1) :
        /\ trace[r].kind = "resolve" /\ trace[r].op = "start"
        /\ \A j \in (r + 1) .. (i - 1) :
              ~ (trace[j].kind = "providerReturn" /\ trace[j].op = "stop")

\* the index of the tunnel opened last before position i
LastTunnelAt(i) ==
    Cardinality({ j \in 1 .. (i - 1) :
                    /\ trace[j].kind = "providerReturn" /\ trace[j].op = "start"
                    /\ trace[j].level \in {"connect", "forward"} })

\* stop() k has the answer of its tunnel teardown call at position j
TeardownAnswered(k, j, kinds) ==
    /\ trace[j].kind \in kinds
    /\ trace[j].op = "stop" /\ trace[j].id = k
    /\ trace[j].level \in TeardownFns

\* the part of C14 that the code keeps: stop() asks the provider to tear the
\* tunnel down first and closes the server only after that call has answered
StopOrderAt(i) ==
    LET k == trace[i].id IN
    /\ i < Len(trace)
    /\ IsEv(i + 1, "providerCall", "stop", k)
    /\ trace[i + 1].level \in TeardownFns
    /\ \A j \in (i + 2) .. Len(trace) :
          /\ IsEv(j, "serverClose", "stop", k) =>
                \E c \in (i + 2) .. (j - 1) :
                    TeardownAnswered(k, c, {"providerReturn", "providerThrow"})
          /\ IsEv(j, "resolve", "stop", k) =>
                \E c \in (i + 3) .. (j - 1) : IsEv(c, "serverClose", "stop", k)

\* C14 as claimed: after a successful start(), stop() disconnects the tunnel
\* first and closes the server only after the disconnect has completed; when
\* stop() resolves, the tunnel opened by that start() and the server have
\* both been torn down.
C14_StopTearsDownBoth ==
    \A i \in DOMAIN trace :
        (trace[i].kind = "stop" /\ TunnelUpAt(i)) =>
            /\ StopOrderAt(i)
            /\ stops[trace[i].id].state = "fulfilled" =>
                  ~ tunnels[LastTunnelAt(i)].open

\* C14 as amended: after a successful start(), stop() asks the provider to
\* tear the tunnel down first and closes the server only after that call
\* has answered; when stop() resolves the server has been closed, and the
\* tunnel opened by that start() has been torn down if the teardown call
\* succeeded.
C14_StopOrder ==
    \A i \in DOMAIN trace :
        (trace[i].kind = "stop" /\ TunnelUpAt(i)) =>
            /\ StopOrderAt(i)
            /\ (/\ stops[trace[i].id].state = "fulfilled"
                /\ \E c \in (i + 2) .. Len(trace) :
                      TeardownAnswered(trace[i].id, c, {"providerReturn"})) =>
                  ~ tunnels[LastTunnelAt(i)].open

\* a stop() after a successful start() tore the tunnel down, closed the
\* server and resolved
C14_Witness ==
    \E i \in DOMAIN trace :
        /\ trace[i].kind = "stop" /\ TunnelUpAt(i)
        /\ stops[trace[i].id].state = "fulfilled"
        /\ ~ tunnels[LastTunnelAt(i)].open
        /\ \E c \in DOMAIN trace : IsEv(c, "serverClose", "stop", trace[i].id)

\* ------------------------------------------------ the latest exchange
\* positions in the latest exchange of the events of one kind
ExPos(kind) == { i \in DOMAIN exchange.events : exchange.events[i].kind = kind }

\* every own property of the object v is a string
IsFlat(v) == v.t = "object" /\ \A i \in DOMAIN v.kv : v.kv[i].v.t = "string"

\* ----------------------------------------------------------------- C15
\* C15: every POST to /callback emits exactly one callback event, to all
\* the registered listeners, before the response to that request is sent.
C15_OneCallbackPerPost ==
    exchange.n > 0 =>
        /\ Cardinality(ExPos("callback")) = 1
        /\ Cardinality(ExPos("listener")) = Len(exchange.registered)
        /\ \A c \in ExPos("callback") \cup ExPos("listener") :
              \E r \in ExPos("response") : c < r

\* ----------------------------------------------------------------- C16
\* C16: every POST to /callback is answered with status 200 and the body
\* "Callback received", whatever the payload and whatever the listeners do.
C16_AlwaysOk ==
    exchange.n > 0 =>
        /\ exchange.status = 200
        /\ exchange.text = "Callback received"
        /\ \E r \in ExPos("response") :
              /\ r = Len(exchange.events)
              /\ exchange.events[r].level = "200"
              /\ exchange.events[r].msg = "Callback received"

\* ----------------------------------------------------------------- C17
\* what the form decoder makes of each body of the input set
FormExpected(raw) ==
    CASE raw = FormAB -> Obj(<< Prop("a", Str("1")), Prop("b", Str("two")) >>)
      [] raw = QueryNested -> Obj(<< Prop("a", Obj(<< Prop("b", Str("1")) >>)) >>)
      [] raw = JsonX -> Obj(<< Prop("{\"x\":1}", Str("")) >>)
      [] raw = JsonArr -> Obj(<< Prop("1,2", Str("")) >>)

\* exactly one info log in the latest exchange, and it comes before the
\* callback event
OneConversionLog ==
    /\ Cardinality(ExPos("log")) = 1
    /\ \A l \in ExPos("log") :
          /\ exchange.events[l].level = "info"
          /\ \E c \in ExPos("callback") : l < c

\* C17 as claimed: a POST that declares application/x-www-form-urlencoded
\* yields a callback event whose body is the flat plain object of the decoded
\* fields, and exactly one info log before the callback event.
C17_FormBodyFlat ==
    (exchange.n > 0 /\ MediaType(exchange.header) = "application/x-www-form-urlencoded") =>
        /\ exchange.routed
        /\ IsFlat(exchange.body)
        /\ exchange.raw = FormAB => exchange.body = FormExpected(FormAB)
        /\ OneConversionLog

\* C17 as amended: a POST that declares application/x-www-form-urlencoded
\* yields a callback event whose body is the plain object the form decoder
\* built (flat for plain field names, nested for a field name such as a[b]),
\* and exactly one info log before the callback event.
C17_FormBody ==
    (exchange.n > 0 /\ MediaType(exchange.header) = "application/x-www-form-urlencoded") =>
        /\ exchange.routed
        /\ exchange.body = FormExpected(exchange.raw)
        /\ OneConversionLog

\* a=1&b=two arrived with a charset parameter on its Content-Type
C17_Witness ==
    /\ exchange.n > 0
    /\ exchange.header = << "application/x-www-form-urlencoded", "charset=UTF-8" >>
    /\ exchange.raw = FormAB
    /\ exchange.body = Obj(<< Prop("a", Str("1")), Prop("b", Str("two")) >>)
    /\ Cardinality(ExPos("log")) = 1

\* ----------------------------------------------------------------- C18
\* C18: a POST that declares application/json and carries a JSON document
\* yields a callback event whose body is the parsed document unchanged; no
\* conversion log is emitted for a request that declares application/json.
C18_JsonPassthrough ==
    (exchange.n > 0 /\ MediaType(exchange.header) = "application/json") =>
        /\ ExPos("log") = {}
        /\ exchange.raw = JsonX =>
              /\ exchange.body = Obj(<< Prop("x", Num("1")) >>)
              /\ Cardinality(ExPos("callback")) = 1
        /\ exchange.raw = JsonArr =>
              /\ exchange.body = Arr(<< Num("1"), Num("2") >>)
              /\ Cardinality(ExPos("callback")) = 1
        /\ exchange.routed => exchange.raw \in {JsonX, JsonArr}

\* {"x":1} arrived as application/json
C18_Witness ==
    /\ exchange.n > 0
    /\ exchange.header = << "application/json" >>
    /\ exchange.raw = JsonX
    /\ exchange.body = Obj(<< Prop("x", Num("1")) >>)
    /\ ExPos("callback") # {}

\* ----------------------------------------------------------------- C19
\* what Express makes of each query string of the input set
QueryExpected(ver, query) ==
    CASE query = QueryTwilio -> Obj(<< Prop("source", Str("twilio")), Prop("n", Str("3")) >>)
      [] query = QueryRepeated -> Obj(<< Prop("x", Arr(<< Str("1"), Str("2") >>)) >>)
      [] query = QueryNested /\ ver = 4 -> Obj(<< Prop("a", Obj(<< Prop("b", Str("1")) >>)) >>)
      [] query = QueryNested /\ ver = 5 -> Obj(<< Prop("a[b]", Str("1")) >>)

C20_BodyIsObject ==
    (exchange.n > 0 /\ exchange.routed) => exchange.body.t = "object"

\* ----------------------------------------------------------------- C21
\* the position of the latest resolve of a start(), 0 when none has resolved
LastResolve ==
    IF \E i \in DOMAIN trace : trace[i].kind = "resolve" /\ trace[i].op = "start"
    THEN CHOOSE i \in DOMAIN trace :
            /\ trace[i].kind = "resolve" /\ trace[i].op = "start"
            /\ \A j \in (i + 1) .. Len(trace) :
                  ~ (trace[j].kind = "resolve" /\ trace[j].op = "start")
    ELSE 0

\* C21: getPublicUrl() returns null while the provider has established no
\* tunnel; it never returns a URL that ends in /callback; and from the moment
\* a start() resolves until a stop() next runs (is called, or goes on after
\* its teardown call), getPublicUrl() followed by "/callback" is the value
\* that start() resolved to.
C21_PublicUrl ==
    /\ getPublicUrl \in Urls \cup {Null}
    /\ (\A i \in DOMAIN trace :
           ~ (trace[i].kind = "providerReturn" /\ trace[i].op = "start"
              /\ trace[i].level \in {"connect", "forward"})) => getPublicUrl = Null
    /\ (/\ LastResolve # 0
        /\ \A j \in (LastResolve + 1) .. Len(trace) : trace[j].op # "stop") =>
            /\ getPublicUrl # Null
            /\ getPublicUrl \o "/callback" = trace[LastResolve].msg
            /\ getPublicUrl \o "/callback" = starts[trace[LastResolve].id].value

\* start() resolved on a handler with a reserved hostname, and no stop() since
C21_Witness ==
    /\ LastResolve # 0
    /\ \A j \in (LastResolve + 1) .. Len(trace) : trace[j].op # "stop"
    /\ customDomain # Null
    /\ getPublicUrl = "https://" \o customDomain

\* ----------------------------------------------------------------- C22
\* C22: every port-in-use bind error of a start() is followed, in the same
\* step, by a bind attempt of that start() on the next port, and no start()
\* is ever rejected with a port-in-use error.
C22_PortInUseNeverRejects ==
    /\ \A i \in DOMAIN trace :
          LET e == trace[i] IN
          /\ (e.kind = "bindError" /\ e.msg = "EADDRINUSE") =>
                /\ i + 2 <= Len(trace)
                /\ IsEv(i + 2, "bind", "start", e.id)
                /\ trace[i + 2].port = e.port + 1
                /\ ~ IsEv(i + 1, "reject", "start", e.id)
          /\ (e.kind = "reject" /\ e.op = "start") => e.msg # "EADDRINUSE"
    /\ \A s \in DOMAIN starts : starts[s].value # "EADDRINUSE"

\* a start() that had to skip an occupied port was rejected by the provider
C22_Witness ==
    \E s \in DOMAIN starts :
        /\ starts[s].state = "rejected"
        /\ starts[s].value = "ERR_NGROK"
        /\ \E i \in DOMAIN trace :
              IsEv(i, "bindError", "start", s) /\ trace[i].msg = "EADDRINUSE"

\* ----------------------------------------------------------------- C23
\* the start() called last before position i
LatestStartAt(i) == Cardinality({ j \in 1 .. (i - 1) : trace[j].kind = "start" })

\* the start() called last before position i has been rejected before i
RejectedStartAt(i) ==
    /\ LatestStartAt(i) > 0
    /\ \E j \in 1 .. (i - 1) : IsEv(j, "reject", "start", LatestStartAt(i))

\* C23: a stop() called after a start() has been rejected, and before any
\* further start(), is never rejected itself, and when it has run to its end
\* no server bound by that start() is listening any more.
C23_StopAfterRejectedStart ==
    \A i \in DOMAIN trace :
        (/\ trace[i].kind = "stop"
         /\ RejectedStartAt(i)
         /\ \A j \in (i + 1) .. Len(trace) : trace[j].kind # "start") =>
            LET k == trace[i].id IN
            /\ stops[k].state # "rejected"
            /\ stops[k].pc = "done" =>
                  \A a \in DOMAIN attempts :
                      attempts[a].start = LatestStartAt(i) => attempts[a].status # "listening"

\* ----------------------------------------------------------------- C24
\* C24: every connect / forward call of a start() names the port on which
\* that start() saw its 'listening' event (a port that reported no bind
\* error to it), the configured auth token, and the configured reserved
\* hostname or none when none is configured; the community variant's
\* authtoken call passes the configured token.
C24_TunnelArguments ==
    \A i \in DOMAIN trace :
        (trace[i].kind = "providerCall" /\ trace[i].op = "start") =>
            LET s == trace[i].id
                arg == trace[i].msg IN
            IF trace[i].level = "authtoken"
            THEN arg = ngrokAuthToken /\ arg # ""
            ELSE /\ arg.addr = starts[s].port
                 /\ \E j \in 1 .. (i - 1) :
                       IsEv(j, "listening", "start", s) /\ trace[j].port = arg.addr
                 /\ \A j \in 1 .. (i - 1) :
                       IsEv(j, "bindError", "start", s) => trace[j].port # arg.addr
                 /\ arg.authtoken = ngrokAuthToken
                 /\ arg.authtoken # ""
                 /\ arg.hostname = customDomain

\* the provider was asked for a tunnel to the port after two skipped ones,
\* with a reserved hostname
C24_Witness ==
    \E i \in DOMAIN trace :
        /\ trace[i].kind = "providerCall" /\ trace[i].op = "start"
        /\ trace[i].level \in {"connect", "forward"}
        /\ trace[i].msg.addr = DefaultPort + 2
        /\ trace[i].msg.hostname = "cb.example.dev"
        /\ trace[i].msg.authtoken = "tok"

\* ----------------------------------------------------------------- C25
\* the bind attempts of start() s that have reported neither event yet
Outstanding(s) ==
    { a \in DOMAIN attempts : attempts[a].start = s /\ attempts[a].status = "pending" }

\* C25: a start() has at most one bind attempt outstanding; each bind attempt
\* after its first comes right after the port-in-use error of the port before
\* it; and it makes no bind attempt after one of its attempts has succeeded.
C25_OneAttemptOutstanding ==
    /\ \A s \in DOMAIN starts : Cardinality(Outstanding(s)) <= 1
    /\ \A i \in DOMAIN trace :
          LET e == trace[i] IN
          (e.kind = "bind" /\ e.port # DefaultPort) =>
              /\ i > 2
              /\ IsEv(i - 2, "bindError", "start", e.id)
              /\ trace[i - 2].msg = "EADDRINUSE"
              /\ trace[i - 2].port = e.port - 1
              /\ attempts[Cardinality({ j \in 1 .. (i - 1) : trace[j].kind = "bind" })].status = "closed"
    /\ \A i \in DOMAIN trace :
          trace[i].kind = "listening" =>
              \A j \in (i + 1) .. Len(trace) :
                  ~ IsEv(j, "bind", "start", trace[i].id)

\* a start() is waiting for the answer of its third bind attempt
C25_Witness ==
    \E s \in DOMAIN starts :
        /\ Cardinality(Outstanding(s)) = 1
        /\ Len(BindPorts(s)) = 3
        /\ \A a \in Outstanding(s) : attempts[a].port = DefaultPort + 2

\* ----------------------------------------------------------------- C26
\* everything a POST /callback produces is there: events of that request
\* only, the response last, and no second response
WholeExchange(x) ==
    /\ x.status # 0
    /\ x.events # << >>
    /\ \A i \in DOMAIN x.events :
          /\ x.events[i].op = "request"
          /\ x.events[i].id = x.n
          /\ x.events[i].kind = "response" <=> i = Len(x.events)
    /\ \A i \in DOMAIN x.events : \A c \in DOMAIN x.events :
          (x.events[i].kind = "log" /\ x.events[c].kind = "callback") => i < c

C26_Step ==
    exchange'.n # exchange.n =>
        /\ exchange'.n = exchange.n + 1
        /\ WholeExchange(exchange')
        /\ UNCHANGED << trace, starts, stops >>

\* C26: the step that handles a POST /callback produces the conversion log
\* (if any), the callback event and the response of that request, in that
\* order and all of them, and nothing else happens in it: no event of another
\* request, no event and no progress of a start() or a stop().
C26_RequestAtomic == [][C26_Step]_vars

\* a form was posted while start() was suspended in the provider call and
\* stop() in its teardown call: log, callback, listener call and response
C26_Witness ==
    /\ exchange.n > 0
    /\ Len(exchange.events) >= 4
    /\ exchange.events[1].kind = "log"
    /\ \E s \in DOMAIN starts : starts[s].state = "pending" /\ starts[s].pc \in TunnelSetupFns
    /\ \E k \in DOMAIN stops : stops[k].state = "pending"

\* ----------------------------------------------------------------- C27
C27_Step ==
    exchange' # exchange =>
        /\ UNCHANGED << server, ngrokUrl, ngrokListener, attempts, tunnels >>
        /\ exchange'.root # exchange.root =>
              /\ exchange'.root = [n |-> exchange.root.n + 1, status |-> 200,
                                   text |-> "POST status callbacks to /callback"]
              /\ exchange'.events = exchange.events
              /\ exchange'.n = exchange.n
              /\ UNCHANGED << trace, listeners >>

\* C27: a step that handles a request, GET / or POST /callback, leaves the
\* server handle, the servers and their ports, the public URL and the
\* tunnel handle as they were; a GET / is answered with the static text and
\* emits no event.
C27_RequestsKeepListenerState == [][C27_Step]_vars

\* the listening server has answered a GET / and a POST /callback
C27_Witness ==
    /\ exchange.root.n > 0
    /\ exchange.n > 0
    /\ server # 0
    /\ attempts[server].status = "listening"
    /\ attempts[server].port = exchange.port

\* ----------------------------------------------------------------- C30
\* C30: an emitted event reaches every listener registered for its kind, in
\* the emitting step and in registration order: each callback event of an
\* exchange is followed at once by one call of each listener registered when
\* the request arrived, first registered first.
C30_DeliveredToAllInOrder ==
    \A c \in ExPos("callback") :
        \A i \in DOMAIN exchange.registered :
            /\ c + i <= Len(exchange.events)
            /\ exchange.events[c + i].kind = "listener"
            /\ exchange.events[c + i].level = ToString(i)
            /\ exchange.events[c + i].msg = exchange.registered[i]

\* ----------------------------------------------------------------- C28
\* start() s is suspended in a call into the tunnel provider
Suspended(s) == starts[s].state = "pending" /\ starts[s].pc \in TunnelSetupFns

\* the events of start() s that the step adds to the history
Added(s) ==
    SelectSeq(SubSeq(trace', Len(trace) + 1, Len(trace')),
              LAMBDA e : e.op = "start" /\ e.id = s)

C28_Step ==
    \A s \in DOMAIN starts :
        Suspended(s) =>
            \/ starts'[s] = starts[s] /\ Added(s) = << >>
            \/ /\ Added(s) # << >>
               /\ Added(s)[1].kind \in {"providerReturn", "providerThrow"}
               /\ Added(s)[1].level = starts[s].pc

\* C28: while start() is suspended in a call into the tunnel provider, the
\* only step that resolves it, rejects it or moves it on is the answer of
\* that call: whatever else happens, it stays pending where it is, so it
\* stays pending for as long as the provider does not answer.
C28_PendingUntilProviderAnswers == [][C28_Step]_vars

\* a whole stop() has run while start() is still suspended in the provider call
C28_Witness ==
    /\ \E s \in DOMAIN starts : Suspended(s)
    /\ \E k \in DOMAIN stops : stops[k].state = "fulfilled"
    /\ trace[Len(trace)].kind = "resolve" /\ trace[Len(trace)].op = "stop"

\* ----------------------------------------------------------------- C29
\* start() s has been called / has settled
Called(s) == s \in DOMAIN starts

Settled(s) ==
    /\ s \in DOMAIN starts
    /\ starts[s].state # "pending"
    /\ \E i \in DOMAIN trace :
          trace[i].op = "start" /\ trace[i].id = s /\ trace[i].kind \in {"resolve", "reject"}

\* C29: when every bind attempt reports its event and every call of start()
\* into the tunnel provider answers, every start() that is called settles
\* (the occupied ports of the model are finitely many, and a free port
\* follows them).
C29_StartSettles == \A s \in 1 .. MaxStarts : [](Called(s) => <>Settled(s))

\* a start() has skipped two occupied ports and was fulfilled
C29_Witness ==
    \E s \in DOMAIN starts :
        /\ Settled(s)
        /\ starts[s].state = "fulfilled"
        /\ Len(BindPorts(s)) = 3

\* ----------------------------------------------------------------- C31
\* how many events of this kind the history holds for port p before position i
CountBefore(i, kind, p) ==
    Cardinality({ j \in 1 .. (i - 1) : trace[j].kind = kind /\ trace[j].port = p })

\* C31: stop() emits "Ngrok tunnel closed" only after its tunnel teardown
\* call has returned successfully, and "Callback server stopped" only after
\* closing a server that was listening; a teardown step that did not take
\* place or that failed is followed by no success log.
C31_SuccessLogsOnlyAfterTeardown ==
    \A i \in DOMAIN trace :
        LET e == trace[i] IN
        (e.kind = "log" /\ e.op = "stop" /\ e.level = "info") =>
            /\ e.msg = "Ngrok tunnel closed" =>
                  \E j \in 1 .. (i - 1) : TeardownAnswered(e.id, j, {"providerReturn"})
            /\ e.msg = "Callback server stopped" =>
                  /\ IsEv(i - 1, "serverClose", "stop", e.id)
                  /\ CountBefore(i, "listening", e.port) >= CountBefore(i, "serverClose", e.port)

\* ----------------------------------------------------------------- C32
\* C32: the configuration of the handler, its auth token and its reserved
\* hostname, is fixed at construction: no step of start(), of stop() or of
\* request handling changes either value.
C32_ConfigurationFixed ==
    [][ngrokAuthToken' = ngrokAuthToken /\ customDomain' = customDomain]_vars

\* ----------------------------------------------------------------- C33
\* the servers of the handler that are listening
ListeningServers == { a \in DOMAIN attempts : attempts[a].status = "listening" }

\* C33: whatever start() and stop() calls were made, at most one server
\* bound by the handler is listening, and when a stop() has just resolved
\* none is: a second start() leaves no earlier server running.
C33_NoServerLeftBehind ==
    /\ Cardinality(ListeningServers) <= 1
    /\ (trace # << >> /\ IsEv(Len(trace), "resolve", "stop", Len(stops))) => ListeningServers = {}

\* ----------------------------------------------------------------- C34
\* position i of the history falls between a call of start() s into the
\* tunnel provider and the answer to that call
InProviderCallAt(s, i) ==
    \E c \in 1 .. (i - 1) :
        /\ IsEv(c, "providerCall", "start", s)
        /\ \A j \in (c + 1) .. (i - 1) :
              ~ (trace[j].op = "start" /\ trace[j].id = s
                 /\ trace[j].kind \in {"providerReturn", "providerThrow"})

\* stop() k was called while start() s was suspended in the provider call
StoppedInProviderCall(s, k) ==
    \E i \in DOMAIN trace : IsEv(i, "stop", "stop", k) /\ InProviderCallAt(s, i)

\* C34: when stop() was called while start() was suspended in the tunnel
\* provider call and both have completed, no tunnel of the handler is open
\* and getPublicUrl() returns null.
C34_NoTunnelOutlivesStop ==
    \A s \in DOMAIN starts : \A k \in DOMAIN stops :
        (StoppedInProviderCall(s, k) /\ starts[s].pc = "done" /\ stops[k].pc = "done") =>
            /\ \A t \in DOMAIN tunnels : ~tunnels[t].open
            /\ getPublicUrl = Null

\* ----------------------------------------------------------------- C35
\* C35: every port number start() attempts to bind lies between the default
\* port and the last port number, and a start() that found the last port
\* occupied too has rejected: it neither attempts the number after the last
\* port nor stays unsettled.
C35_PortsWithinRange ==
    \A i \in DOMAIN trace :
        /\ trace[i].kind = "bind" => trace[i].port \in DefaultPort .. MaxPort
        /\ (trace[i].kind = "bindError" /\ trace[i].port = MaxPort) =>
              starts[trace[i].id].state = "rejected"

\* ----------------------------------------------------------------- C36
\* the positions of the tunnelStatus events of start() s
TunnelStatusAt(s) == { i \in DOMAIN trace : IsEv(i, "tunnelStatus", "start", s) }

\* start() s has called into the tunnel provider
ProviderInvoked(s) == \E i \in DOMAIN trace : IsEv(i, "providerCall", "start", s)

\* C36: a start() emits at most one tunnelStatus event; when it has called
\* the tunnel provider and has settled it has emitted exactly one, of level
\* info when it was fulfilled and of level error when it was rejected; and
\* every tunnelStatus event comes after the 'listening' event of its start().
C36_OneTunnelStatus ==
    \A s \in DOMAIN starts :
        /\ Cardinality(TunnelStatusAt(s)) <= 1
        /\ (ProviderInvoked(s) /\ starts[s].state # "pending") =>
              \E i \in TunnelStatusAt(s) :
                  trace[i].level = IF starts[s].state = "fulfilled" THEN "info" ELSE "error"
        /\ \A i \in TunnelStatusAt(s) :
              \E j \in 1 .. (i - 1) : IsEv(j, "listening", "start", s)

\* ----------------------------------------------------------------- C37
\* everything the step adds to the history
AddedEvents == SubSeq(trace', Len(trace) + 1, Len(trace'))

\* the close of the tunnel listener has thrown in some stop() and has not
\* succeeded since
CloseFailedBefore ==
    \E j \in DOMAIN trace :
        /\ trace[j].kind = "providerThrow" /\ trace[j].op = "stop" /\ trace[j].level = "listenerClose"
        /\ \A i \in (j + 1) .. Len(trace) :
              ~ (trace[i].kind = "providerReturn" /\ trace[i].op = "stop"
                 /\ trace[i].level = "listenerClose")

C37_Step ==
    /\ \A k \in DOMAIN stops :
          (stops[k].pc = "listenerClose" /\ AddedEvents # << >>
           /\ AddedEvents[1] = ProviderThrow("stop", k, 0, "listenerClose", ProviderError)) =>
              /\ Len(AddedEvents) = 5
              /\ AddedEvents[2].kind = "log" /\ AddedEvents[2].level = "error"
              /\ AddedEvents[2].op = "stop" /\ AddedEvents[2].id = k
              /\ ngrokListener' = ngrokListener /\ ngrokListener' # 0
              /\ ngrokUrl' = ngrokUrl
              /\ getPublicUrl' = tunnels[ngrokListener].url
              /\ AddedEvents[3] = Ev("serverClose", "stop", k, attempts[server].port, "", "")
              /\ attempts'[server].status = "closed"
              /\ AddedEvents[5] = Ev("resolve", "stop", k, 0, "", "")
    /\ (CloseFailedBefore /\ Len(stops') > Len(stops)) =>
          /\ Len(AddedEvents) = 2
          /\ AddedEvents[2].kind = "providerCall"
          /\ AddedEvents[2].op = "stop" /\ AddedEvents[2].level = "listenerClose"

\* C37: in the official-SDK variant, when closing the tunnel listener throws
\* in stop(), an error-level log is emitted, ngrokListener and ngrokUrl keep
\* their values (getPublicUrl() returns the URL as before), the server is
\* closed and stop() resolves; and a later stop() calls the close of the
\* tunnel listener again.
C37_CloseFailureKeepsTunnel == [][C37_Step]_vars

\* a second stop() has called the close of the tunnel listener after the
\* close threw in the first
C37_Witness ==
    /\ variant = "sdk"
    /\ Len(stops) = 2
    /\ CloseFailedBefore
    /\ \E i, j \in DOMAIN trace :
          /\ i < j
          /\ IsEv(i, "providerThrow", "stop", 1) /\ trace[i].level = "listenerClose"
          /\ IsEv(j, "providerCall", "stop", 2) /\ trace[j].level = "listenerClose"
    /\ getPublicUrl # Null
====
